---- MODULE Spec2Model ----
(***************************************************************************)
(* Verification model of forge, a terminal HTTP client.                    *)
(*                                                                         *)
(* Strings are sequences of bytes, each byte written as a one-character    *)
(* string; byte offsets are 0-based as in the Rust source, and Slice(s,a,b) *)
(* is the Rust slice s[a..b].                                              *)
(***************************************************************************)
EXTENDS Integers, Sequences, FiniteSets, TLC

\* ------------------------------------------------------------------------
\* State
\* ------------------------------------------------------------------------

VARIABLES
    open_tabs,              \* WorkspaceState.open_tabs
    active_tab_idx,         \* WorkspaceState.active_tab_idx (0-based)
    collections,            \* saved URL of each collection request, by id
    environments,           \* WorkspaceState.environments
    active_environment_idx, \* WorkspaceState.active_environment_idx
    os_env,                 \* std::env::vars()
    cancel,                 \* App.cancel: the cancellation slot
    cancelled,              \* tokens on which cancel() has been called
    tasks,                  \* spawned execute() tasks, in spawn order
    channel,                \* Response events in the mpsc channel
    calls,                  \* number of send_request calls made
    arg_input,              \* resolver call: the input string
    layers,                 \* resolver call: EnvResolver.layers
    secret_keys,            \* resolver call: EnvResolver.secret_keys
    out                     \* resolver call: its result

app_vars ==
    << open_tabs, active_tab_idx, collections, environments,
       active_environment_idx, os_env, cancel, cancelled, tasks, channel, calls >>

resolver_vars == << arg_input, layers, secret_keys, out >>

vars == << app_vars, resolver_vars >>

\* ------------------------------------------------------------------------
\* Strings
\* ------------------------------------------------------------------------

At(s, i) == s[i + 1]

Slice(s, a, b) == SubSeq(s, a + 1, b)

RECURSIVE Flatten(_)
Flatten(ss) == IF ss = <<>> THEN <<>> ELSE Head(ss) \o Flatten(Tail(ss))

IsWhitespace(c) == c = " "

RECURSIVE TrimStart(_)
TrimStart(s) ==
    IF s # <<>> /\ IsWhitespace(Head(s)) THEN TrimStart(Tail(s)) ELSE s

RECURSIVE TrimEnd(_)
TrimEnd(s) ==
    IF s # <<>> /\ IsWhitespace(s[Len(s)])
    THEN TrimEnd(SubSeq(s, 1, Len(s) - 1))
    ELSE s

\* str::trim
trim(s) == TrimEnd(TrimStart(s))

Some(v) == [some |-> TRUE, val |-> v]

None == [some |-> FALSE]

\* ------------------------------------------------------------------------
\* env/interpolator.rs
\* ------------------------------------------------------------------------

NotFound == 0 - 1

\* The inner loop as it would be if it kept the last "}}" instead of the first.
RECURSIVE find_close_last(_, _)
find_close_last(bytes, j) ==
    IF j + 1 < Len(bytes)
    THEN LET later == find_close_last(bytes, j + 1) IN
         IF later # NotFound THEN later
         ELSE IF At(bytes, j) = "}" /\ At(bytes, j + 1) = "}" THEN j
         ELSE NotFound
    ELSE NotFound

\* The inner `while j + 1 < len` loop of parse_vars: the offset of the first
\* "}}" at or after j, or NotFound.
RECURSIVE find_close(_, _)
find_close(bytes, j) ==
    IF j + 1 < Len(bytes)
    THEN IF At(bytes, j) = "}" /\ At(bytes, j + 1) = "}"
         THEN j
         ELSE find_close(bytes, j + 1)
    ELSE NotFound

\* The outer loop as it would be if a marker with an empty name ended the scan.
RECURSIVE parse_loop_stop_on_empty(_, _, _)
parse_loop_stop_on_empty(bytes, i, result) ==
    IF i + 1 < Len(bytes)
    THEN IF At(bytes, i) = "{" /\ At(bytes, i + 1) = "{"
         THEN LET j == find_close(bytes, i + 2) IN
              IF j # NotFound
              THEN LET trimmed == trim(Slice(bytes, i + 2, j)) IN
                   IF trimmed # <<>>
                   THEN parse_loop_stop_on_empty(bytes, j + 2,
                            Append(result, [start |-> i, end |-> j + 2, name |-> trimmed]))
                   ELSE result
              ELSE result
         ELSE parse_loop_stop_on_empty(bytes, i + 1, result)
    ELSE result

\* The outer loop as it would be if an unclosed marker discarded the spans
\* found before it.
RECURSIVE parse_loop_discard_on_unclosed(_, _, _)
parse_loop_discard_on_unclosed(bytes, i, result) ==
    IF i + 1 < Len(bytes)
    THEN IF At(bytes, i) = "{" /\ At(bytes, i + 1) = "{"
         THEN LET j == find_close(bytes, i + 2) IN
              IF j # NotFound
              THEN LET trimmed == trim(Slice(bytes, i + 2, j)) IN
                   parse_loop_discard_on_unclosed(bytes, j + 2,
                       IF trimmed # <<>>
                       THEN Append(result,
                                [start |-> i, end |-> j + 2, name |-> trimmed])
                       ELSE result)
              ELSE <<>>
         ELSE parse_loop_discard_on_unclosed(bytes, i + 1, result)
    ELSE result

\* The outer loop as it would be if a single "{" opened a marker.
RECURSIVE parse_loop_single_brace(_, _, _)
parse_loop_single_brace(bytes, i, result) ==
    IF i + 1 < Len(bytes)
    THEN IF At(bytes, i) = "{"
         THEN LET j == find_close(bytes, i + 2) IN
              IF j # NotFound
              THEN LET trimmed == trim(Slice(bytes, i + 2, j)) IN
                   parse_loop_single_brace(bytes, j + 2,
                       IF trimmed # <<>>
                       THEN Append(result,
                                [start |-> i, end |-> j + 2, name |-> trimmed])
                       ELSE result)
              ELSE result
         ELSE parse_loop_single_brace(bytes, i + 1, result)
    ELSE result

\* The outer `while i + 1 < len` loop of parse_vars.
RECURSIVE parse_loop(_, _, _)
parse_loop(bytes, i, result) ==
    IF i + 1 < Len(bytes)
    THEN IF At(bytes, i) = "{" /\ At(bytes, i + 1) = "{"
         THEN LET j == find_close(bytes, i + 2) IN
              IF j # NotFound
              THEN LET trimmed == trim(Slice(bytes, i + 2, j)) IN
                   parse_loop(bytes, j + 2,
                       IF trimmed # <<>>
                       THEN Append(result,
                                [start |-> i, end |-> j + 2, name |-> trimmed])
                       ELSE result)
              ELSE result
         ELSE parse_loop(bytes, i + 1, result)
    ELSE result

parse_vars(input) == parse_loop(input, 0, <<>>)

\* ------------------------------------------------------------------------
\* env/resolver.rs
\* ------------------------------------------------------------------------

Bullet == <<"E2", "80", "A2">>

\* The literal "••••••••": eight bullets of three bytes each.
Mask == Bullet \o Bullet \o Bullet \o Bullet \o Bullet \o Bullet \o Bullet \o Bullet

RECURSIVE lookup_from(_, _, _)
lookup_from(ls, k, name) ==
    IF k > Len(ls) THEN None
    ELSE IF name \in DOMAIN ls[k] THEN Some(ls[k][name])
    ELSE lookup_from(ls, k + 1, name)

\* lookup as it would be if the lowest-priority layer were searched first.
RECURSIVE lookup_down(_, _, _)
lookup_down(ls, k, name) ==
    IF k < 1 THEN None
    ELSE IF name \in DOMAIN ls[k] THEN Some(ls[k][name])
    ELSE lookup_down(ls, k - 1, name)

lookup_last_wins(ls, name) == lookup_down(ls, Len(ls), name)

lookup(ls, name) == lookup_from(ls, 1, name)

\* lookup_secret as it would be if it searched the first layer only.
lookup_secret_first_layer(ls, name) ==
    IF ls # <<>> /\ name \in DOMAIN ls[1] THEN Some(ls[1][name]) ELSE None

lookup_secret(ls, name) == lookup(ls, name)

\* The loop as it would be if it recorded each span at its input offsets.
RECURSIVE resolve_loop_input_offsets(_, _, _, _, _, _)
resolve_loop_input_offsets(ls, secrets, input, var_spans, k, acc) ==
    IF k > Len(var_spans) THEN acc
    ELSE LET sp == var_spans[k]
             resolved == lookup(ls, sp.name)
             replacement ==
                 IF resolved.some
                 THEN IF sp.name \in secrets THEN Mask ELSE resolved.val
                 ELSE Slice(input, sp.start, sp.end)
             status ==
                 IF resolved.some
                 THEN IF sp.name \in secrets
                      THEN [kind |-> "Secret"]
                      ELSE [kind |-> "Resolved", val |-> resolved.val]
                 ELSE [kind |-> "Unresolved"]
         IN  resolve_loop_input_offsets(ls, secrets, input, var_spans, k + 1,
                 [output |-> acc.output \o Slice(input, acc.last, sp.start) \o replacement,
                  spans  |-> Append(acc.spans,
                                [start |-> sp.start, end |-> sp.end,
                                 variable_name |-> sp.name, status |-> status]),
                  last   |-> sp.end])

\* The loop as it would be if a found value replaced only the interior of the
\* placeholder, between the braces.
RECURSIVE resolve_loop_keep_braces(_, _, _, _, _, _)
resolve_loop_keep_braces(ls, secrets, input, var_spans, k, acc) ==
    IF k > Len(var_spans) THEN acc
    ELSE LET sp == var_spans[k]
             out1 == acc.output \o Slice(input, acc.last, sp.start)
             resolved == lookup(ls, sp.name)
             replacement ==
                 IF resolved.some
                 THEN IF sp.name \in secrets THEN Mask
                      ELSE <<"{", "{">> \o resolved.val \o <<"}", "}">>
                 ELSE Slice(input, sp.start, sp.end)
             status ==
                 IF resolved.some
                 THEN IF sp.name \in secrets
                      THEN [kind |-> "Secret"]
                      ELSE [kind |-> "Resolved", val |-> resolved.val]
                 ELSE [kind |-> "Unresolved"]
             out2 == out1 \o replacement
         IN  resolve_loop_keep_braces(ls, secrets, input, var_spans, k + 1,
                 [output |-> out2,
                  spans  |-> Append(acc.spans,
                                [start |-> Len(out1), end |-> Len(out2),
                                 variable_name |-> sp.name, status |-> status]),
                  last   |-> sp.end])

\* The loop as it would be if an unknown name were replaced by its trimmed
\* name instead of the original text.
RECURSIVE resolve_loop_drop_braces(_, _, _, _, _, _)
resolve_loop_drop_braces(ls, secrets, input, var_spans, k, acc) ==
    IF k > Len(var_spans) THEN acc
    ELSE LET sp == var_spans[k]
             out1 == acc.output \o Slice(input, acc.last, sp.start)
             resolved == lookup(ls, sp.name)
             replacement ==
                 IF resolved.some
                 THEN IF sp.name \in secrets THEN Mask ELSE resolved.val
                 ELSE sp.name
             status ==
                 IF resolved.some
                 THEN IF sp.name \in secrets
                      THEN [kind |-> "Secret"]
                      ELSE [kind |-> "Resolved", val |-> resolved.val]
                 ELSE [kind |-> "Unresolved"]
             out2 == out1 \o replacement
         IN  resolve_loop_drop_braces(ls, secrets, input, var_spans, k + 1,
                 [output |-> out2,
                  spans  |-> Append(acc.spans,
                                [start |-> Len(out1), end |-> Len(out2),
                                 variable_name |-> sp.name, status |-> status]),
                  last   |-> sp.end])

\* The body of the `for (start, end, name) in &var_spans` loop of resolve,
\* from span k on; acc is (output, spans, last).
RECURSIVE resolve_loop(_, _, _, _, _, _)
resolve_loop(ls, secrets, input, var_spans, k, acc) ==
    IF k > Len(var_spans) THEN acc
    ELSE LET sp == var_spans[k]
             out1 == acc.output \o Slice(input, acc.last, sp.start)
             val_out_start == Len(out1)
             resolved == lookup(ls, sp.name)
             replacement ==
                 IF resolved.some
                 THEN IF sp.name \in secrets THEN Mask ELSE resolved.val
                 ELSE Slice(input, sp.start, sp.end)
             status ==
                 IF resolved.some
                 THEN IF sp.name \in secrets
                      THEN [kind |-> "Secret"]
                      ELSE [kind |-> "Resolved", val |-> resolved.val]
                 ELSE [kind |-> "Unresolved"]
             out2 == out1 \o replacement
         IN  resolve_loop(ls, secrets, input, var_spans, k + 1,
                 [output |-> out2,
                  spans  |-> Append(acc.spans,
                                [start |-> val_out_start, end |-> Len(out2),
                                 variable_name |-> sp.name, status |-> status]),
                  last   |-> sp.end])

\* resolve as it would be if the secret set were not consulted.
resolve_unmasked(ls, secrets, input) ==
    LET var_spans == parse_vars(input)
        acc == resolve_loop(ls, {}, input, var_spans, 1,
                   [output |-> <<>>, spans |-> <<>>, last |-> 0])
    IN  [value |-> acc.output \o Slice(input, acc.last, Len(input)),
         spans |-> acc.spans]

resolve(ls, secrets, input) ==
    LET var_spans == parse_vars(input) IN
    IF var_spans = <<>>
    THEN [value |-> input, spans |-> <<>>]
    ELSE LET acc == resolve_loop(ls, secrets, input, var_spans, 1,
                        [output |-> <<>>, spans |-> <<>>, last |-> 0])
         IN  [value |-> acc.output \o Slice(input, acc.last, Len(input)),
              spans |-> acc.spans]

RECURSIVE send_loop(_, _, _, _, _)
send_loop(ls, input, var_spans, k, acc) ==
    IF k > Len(var_spans) THEN acc
    ELSE LET sp == var_spans[k]
             out1 == acc.output \o Slice(input, acc.last, sp.start)
             found == lookup_secret(ls, sp.name)
             out2 == IF found.some
                     THEN out1 \o found.val
                     ELSE out1 \o Slice(input, sp.start, sp.end)
         IN  send_loop(ls, input, var_spans, k + 1,
                 [output |-> out2, last |-> sp.end])

\* resolve_for_send as it would be if it reused the display resolution.
resolve_for_send_display(ls, input) == resolve(ls, secret_keys, input).value

\* resolve_for_send as it would be if the text it produced were scanned once
\* more.
resolve_for_send_rescan(ls, input) ==
    LET pass(text) ==
            LET var_spans == parse_vars(text) IN
            IF var_spans = <<>>
            THEN text
            ELSE LET acc == send_loop(ls, text, var_spans, 1,
                                [output |-> <<>>, last |-> 0])
                 IN  acc.output \o Slice(text, acc.last, Len(text))
    IN  pass(pass(input))

resolve_for_send(ls, input) ==
    LET var_spans == parse_vars(input) IN
    IF var_spans = <<>>
    THEN input
    ELSE LET acc == send_loop(ls, input, var_spans, 1,
                        [output |-> <<>>, last |-> 0])
         IN  acc.output \o Slice(input, acc.last, Len(input))

\* ------------------------------------------------------------------------
\* Bounds and pools of the model
\* ------------------------------------------------------------------------

\* send_request calls explored.
MaxSends == 3

Str_a == <<"a">>

Str_s == <<"s">>

Str_d == <<"d">>

Val_v == <<"v">>

Val_ww == <<"w", "w">>

Val_os == <<"o", "s">>

\* "{{a}}/{{u}}": a is defined by the environment, u by nothing.
Url_au == <<"{", "{", "a", "}", "}", "/", "{", "{", "u", "}", "}">>

KeyValuePair(k, v, en) == [key |-> k, value |-> v, enabled |-> en]

\* A request with the URL and headers given and, for the rest, the values of
\* RequestState::default(): GET, no params, no auth, no body.
RequestState(u, hs) ==
    [method |-> "Get", url |-> u, params |-> <<>>, headers |-> hs,
     auth |-> [kind |-> "None"], body |-> [kind |-> "None"]]

\* RequestState::default(): empty URL, no headers.
DefaultRequest == RequestState(<<>>, <<>>)

\* "k{{ u }}: {{s}}" enabled, "{{a}}: {{u}}" disabled.
Headers_us ==
    << KeyValuePair(<<"k", "{", "{", " ", "u", " ", "}", "}">>,
                    <<"{", "{", "s", "}", "}">>, TRUE),
       KeyValuePair(<<"{", "{", "a", "}", "}">>,
                    <<"{", "{", "u", "}", "}">>, FALSE) >>

\* POST "{{a}}/{{u}}" with the headers above, the param q = {{a}}, the bearer
\* token {{s}} and the text body {{a}}.
Request_au ==
    [RequestState(Url_au, Headers_us) EXCEPT
       !.method = "Post",
       !.params = << KeyValuePair(<<"q">>, <<"{", "{", "a", "}", "}">>, TRUE) >>,
       !.auth = [kind |-> "Bearer", token |-> <<"{", "{", "s", "}", "}">>],
       !.body = [kind |-> "Text", text |-> <<"{", "{", "a", "}", "}">>]]

\* The requests a user's edits produce.
RequestPool == { DefaultRequest, Request_au }

\* Ids of the requests saved in the workspace's collections.
CollectionIds == {"c1"}

EnvVariable(k, v, t, en) == [key |-> k, value |-> v, var_type |-> t, enabled |-> en]

\* One environment: a = v, secret s = ww, and a disabled d.
EnvDev ==
    [variables |-> << EnvVariable(Str_a, Val_v, "Text", TRUE),
                      EnvVariable(Str_s, Val_ww, "Secret", TRUE),
                      EnvVariable(Str_d, Val_v, "Text", FALSE) >>]

\* ------------------------------------------------------------------------
\* state/workspace.rs, state/app_state.rs
\* ------------------------------------------------------------------------

\* RequestTab::default()
DefaultTab ==
    [request |-> DefaultRequest, response |-> None,
     collection_id |-> None, request_status |-> [kind |-> "Idle"]]

\* AppState::active_tab: open_tabs.get(active_tab_idx)
active_tab ==
    IF active_tab_idx < Len(open_tabs) THEN Some(open_tabs[active_tab_idx + 1]) ELSE None

\* ------------------------------------------------------------------------
\* env/resolver.rs: resolver_from_state
\* ------------------------------------------------------------------------

\* Map m with key k bound to v (HashMap::insert).
map_insert(m, k, v) == [x \in (DOMAIN m) \cup {k} |-> IF x = k THEN v ELSE m[x]]

EmptyMap == [x \in {} |-> <<>>]

\* The loop as it would be if it did not test `enabled`.
RECURSIVE env_layer_all(_, _, _)
env_layer_all(variables, k, acc) ==
    IF k > Len(variables) THEN acc
    ELSE LET var == variables[k] IN
         env_layer_all(variables, k + 1,
             [map |-> map_insert(acc.map, var.key, var.value),
              secret_keys |-> IF var.var_type = "Secret"
                              THEN acc.secret_keys \cup {var.key}
                              ELSE acc.secret_keys])

RECURSIVE env_layer(_, _, _)
env_layer(variables, k, acc) ==
    IF k > Len(variables) THEN acc
    ELSE LET var == variables[k] IN
         env_layer(variables, k + 1,
             IF var.enabled
             THEN [map |-> map_insert(acc.map, var.key, var.value),
                   secret_keys |-> IF var.var_type = "Secret"
                                   THEN acc.secret_keys \cup {var.key}
                                   ELSE acc.secret_keys]
             ELSE acc)

resolver_from_state(envs, env_idx, os) ==
    LET l0 == IF env_idx.some /\ env_idx.val < Len(envs)
              THEN env_layer(envs[env_idx.val + 1].variables, 1,
                       [map |-> EmptyMap, secret_keys |-> {}])
              ELSE [map |-> EmptyMap, secret_keys |-> {}]
        has0 == env_idx.some /\ env_idx.val < Len(envs)
    IN  [layers |-> IF has0 THEN << l0.map, os >> ELSE << os >>,
         secret_keys |-> l0.secret_keys]

\* ------------------------------------------------------------------------
\* app.rs: tabs and collections
\* ------------------------------------------------------------------------

\* sync_active_tab_to_collection: the active tab's URL is written to the
\* collection request it was opened from, if any.
sync_active_tab_to_collection(tabs, idx, cols) ==
    IF idx < Len(tabs) /\ tabs[idx + 1].collection_id.some
          /\ tabs[idx + 1].collection_id.val \in DOMAIN cols
    THEN [cols EXCEPT ![tabs[idx + 1].collection_id.val] = tabs[idx + 1].request.url]
    ELSE cols

\* Seq without its element at 0-based index i (Vec::remove).
remove_at(seq, i) == SubSeq(seq, 1, i) \o SubSeq(seq, i + 2, Len(seq))

Min(a, b) == IF a < b THEN a ELSE b

\* `]` outside the URL bar.
next_open_tab ==
    /\ Len(open_tabs) # 0
    /\ collections' = sync_active_tab_to_collection(open_tabs, active_tab_idx, collections)
    /\ active_tab_idx' = (active_tab_idx + 1) % Len(open_tabs)
    /\ UNCHANGED << open_tabs, environments, active_environment_idx, os_env,
                    cancel, cancelled, tasks, channel, calls, resolver_vars >>

\* `[` outside the URL bar.
prev_open_tab ==
    /\ Len(open_tabs) # 0
    /\ collections' = sync_active_tab_to_collection(open_tabs, active_tab_idx, collections)
    /\ active_tab_idx' = (active_tab_idx + Len(open_tabs) - 1) % Len(open_tabs)
    /\ UNCHANGED << open_tabs, environments, active_environment_idx, os_env,
                    cancel, cancelled, tasks, channel, calls, resolver_vars >>

\* close_active_tab as it would be if it left active_tab_idx where it was when
\* tabs remain.
close_active_tab_no_clamp ==
    /\ Len(open_tabs) # 0
    /\ collections' = sync_active_tab_to_collection(open_tabs, active_tab_idx, collections)
    /\ LET rest == remove_at(open_tabs, active_tab_idx) IN
       IF rest = <<>>
       THEN /\ open_tabs' = << DefaultTab >>
            /\ active_tab_idx' = 0
       ELSE /\ open_tabs' = rest
            /\ UNCHANGED active_tab_idx
    /\ UNCHANGED << environments, active_environment_idx, os_env,
                    cancel, cancelled, tasks, channel, calls, resolver_vars >>

\* Alt+w.
close_active_tab ==
    /\ Len(open_tabs) # 0
    /\ collections' = sync_active_tab_to_collection(open_tabs, active_tab_idx, collections)
    /\ LET rest == remove_at(open_tabs, active_tab_idx) IN
       IF rest = <<>>
       THEN /\ open_tabs' = << DefaultTab >>
            /\ active_tab_idx' = 0
       ELSE /\ open_tabs' = rest
            /\ active_tab_idx' = Min(active_tab_idx, Len(rest) - 1)
    /\ UNCHANGED << environments, active_environment_idx, os_env,
                    cancel, cancelled, tasks, channel, calls, resolver_vars >>

\* Index (0-based) of the first open tab with collection_id = Some(id), or NotFound.
RECURSIVE position_of(_, _, _)
position_of(tabs, id, k) ==
    IF k > Len(tabs) THEN NotFound
    ELSE IF tabs[k].collection_id = Some(id) THEN k - 1
    ELSE position_of(tabs, id, k + 1)

\* Enter on a request node of the sidebar.
handle_sidebar_enter(id) ==
    /\ id \in DOMAIN collections
    /\ LET idx == position_of(open_tabs, id, 1) IN
       IF idx # NotFound
       THEN /\ active_tab_idx' = idx
            /\ UNCHANGED open_tabs
       ELSE /\ open_tabs' = Append(open_tabs,
                   [DefaultTab EXCEPT !.request.url = collections[id],
                                      !.collection_id = Some(id)])
            /\ active_tab_idx' = Len(open_tabs)
    /\ UNCHANGED << collections, environments, active_environment_idx, os_env,
                    cancel, cancelled, tasks, channel, calls, resolver_vars >>

\* Insert-mode editing of the active tab's URL and headers, taken as a whole:
\* the request becomes r.
handle_insert_key(r) ==
    /\ active_tab.some
    /\ active_tab.val.request # r
    /\ open_tabs' = [open_tabs EXCEPT ![active_tab_idx + 1].request = r]
    /\ UNCHANGED << active_tab_idx, collections, environments, active_environment_idx,
                    os_env, cancel, cancelled, tasks, channel, calls, resolver_vars >>

\* ------------------------------------------------------------------------
\* app.rs: send, cancel, response
\* ------------------------------------------------------------------------

\* The copy of the request moved into the task: URL and enabled headers resolved.
\* The request as it would be sent if the values of the enabled query params
\* were resolved too.
resolved_request_params(req, resolver) ==
    [req EXCEPT
       !.url = resolve_for_send(resolver.layers, req.url),
       !.params = [i \in DOMAIN req.params |->
           IF req.params[i].enabled
           THEN [req.params[i] EXCEPT
                   !.value = resolve_for_send(resolver.layers, req.params[i].value)]
           ELSE req.params[i]],
       !.headers = [i \in DOMAIN req.headers |->
           IF req.headers[i].enabled
           THEN [req.headers[i] EXCEPT
                   !.key = resolve_for_send(resolver.layers, req.headers[i].key),
                   !.value = resolve_for_send(resolver.layers, req.headers[i].value)]
           ELSE req.headers[i]]]

resolved_request(req, resolver) ==
    [req EXCEPT
       !.url = resolve_for_send(resolver.layers, req.url),
       !.headers = [i \in DOMAIN req.headers |->
           IF req.headers[i].enabled
           THEN [req.headers[i] EXCEPT
                   !.key = resolve_for_send(resolver.layers, req.headers[i].key),
                   !.value = resolve_for_send(resolver.layers, req.headers[i].value)]
           ELSE req.headers[i]]]

set_loading(tab) ==
    [tab EXCEPT !.request_status = [kind |-> "Loading"], !.response = None]

\* Whether some placeholder of s has a name no layer of ls contains.
has_unresolved(ls, s) ==
    \E k \in DOMAIN parse_vars(s) : ~lookup(ls, parse_vars(s)[k].name).some

\* send_request as it would be if it refused to send a request with an
\* unresolved placeholder in its URL or in an enabled header.
send_request_strict ==
    /\ calls < MaxSends
    /\ calls' = calls + 1
    /\ LET resolver == resolver_from_state(environments, active_environment_idx, os_env)
           blocked ==
               IF active_tab.some
               THEN LET req == active_tab.val.request IN
                    \/ req.url = <<>>
                    \/ has_unresolved(resolver.layers, req.url)
                    \/ \E i \in DOMAIN req.headers :
                          /\ req.headers[i].enabled
                          /\ \/ has_unresolved(resolver.layers, req.headers[i].key)
                             \/ has_unresolved(resolver.layers, req.headers[i].value)
               ELSE TRUE
       IN  IF blocked
           THEN UNCHANGED << open_tabs, cancel, cancelled, tasks >>
           ELSE /\ cancelled' = IF cancel.some THEN cancelled \cup {cancel.val} ELSE cancelled
                /\ cancel' = Some(Len(tasks) + 1)
                /\ open_tabs' = IF active_tab_idx < Len(open_tabs)
                              THEN [open_tabs EXCEPT ![active_tab_idx + 1] = set_loading(@)]
                              ELSE open_tabs
                /\ tasks' = Append(tasks,
                       [request |-> resolved_request(active_tab.val.request, resolver),
                        net |-> "pending", late |-> FALSE, done |-> FALSE, sent |-> 0,
                        origin |-> active_tab.val.collection_id])
    /\ UNCHANGED << active_tab_idx, collections, environments, active_environment_idx,
                    os_env, channel, resolver_vars >>

\* send_request as it would be if it resolved the tab's request in place
\* instead of resolving a clone of it.
send_request_in_place ==
    /\ calls < MaxSends
    /\ calls' = calls + 1
    /\ IF (IF active_tab.some THEN active_tab.val.request.url = <<>> ELSE TRUE)
       THEN UNCHANGED << open_tabs, cancel, cancelled, tasks >>
       ELSE LET token == Len(tasks) + 1
                resolver == resolver_from_state(environments, active_environment_idx, os_env)
                req == resolved_request(active_tab.val.request, resolver)
            IN  /\ cancelled' = IF cancel.some THEN cancelled \cup {cancel.val} ELSE cancelled
                /\ cancel' = Some(token)
                /\ open_tabs' = [open_tabs EXCEPT
                                   ![active_tab_idx + 1] = [set_loading(@) EXCEPT !.request = req]]
                /\ tasks' = Append(tasks,
                       [request |-> req,
                        net |-> "pending", late |-> FALSE, done |-> FALSE, sent |-> 0,
                        origin |-> active_tab.val.collection_id])
    /\ UNCHANGED << active_tab_idx, collections, environments, active_environment_idx,
                    os_env, channel, resolver_vars >>

\* send_request as it would be if it took and cancelled the token in the slot
\* before it looked at the URL.
send_request_cancel_first ==
    /\ calls < MaxSends
    /\ calls' = calls + 1
    /\ cancelled' = IF cancel.some THEN cancelled \cup {cancel.val} ELSE cancelled
    /\ IF (IF active_tab.some THEN active_tab.val.request.url = <<>> ELSE TRUE)
       THEN /\ cancel' = None
            /\ UNCHANGED << open_tabs, tasks >>
       ELSE LET token == Len(tasks) + 1
                resolver == resolver_from_state(environments, active_environment_idx, os_env)
            IN  /\ cancel' = Some(token)
                /\ open_tabs' = IF active_tab_idx < Len(open_tabs)
                              THEN [open_tabs EXCEPT ![active_tab_idx + 1] = set_loading(@)]
                              ELSE open_tabs
                /\ tasks' = Append(tasks,
                       [request |-> resolved_request(active_tab.val.request, resolver),
                        net |-> "pending", late |-> FALSE, done |-> FALSE, sent |-> 0,
                        origin |-> active_tab.val.collection_id])
    /\ UNCHANGED << active_tab_idx, collections, environments, active_environment_idx,
                    os_env, channel, resolver_vars >>

\* Ctrl+R, or Enter in the URL bar.
send_request ==
    /\ calls < MaxSends
    /\ calls' = calls + 1
    /\ IF (IF active_tab.some THEN active_tab.val.request.url = <<>> ELSE TRUE)
       THEN UNCHANGED << open_tabs, cancel, cancelled, tasks >>
       ELSE LET token == Len(tasks) + 1
                resolver == resolver_from_state(environments, active_environment_idx, os_env)
            IN  /\ cancelled' = IF cancel.some THEN cancelled \cup {cancel.val} ELSE cancelled
                /\ cancel' = Some(token)
                /\ open_tabs' = IF active_tab_idx < Len(open_tabs)
                              THEN [open_tabs EXCEPT ![active_tab_idx + 1] = set_loading(@)]
                              ELSE open_tabs
                /\ tasks' = Append(tasks,
                       [request |-> resolved_request(active_tab.val.request, resolver),
                        net |-> "pending", late |-> FALSE, done |-> FALSE, sent |-> 0,
                        origin |-> active_tab.val.collection_id])
    /\ UNCHANGED << active_tab_idx, collections, environments, active_environment_idx,
                    os_env, channel, resolver_vars >>

set_idle(tab) == [tab EXCEPT !.request_status = [kind |-> "Idle"]]

\* Esc in normal mode.
cancel_request ==
    /\ cancelled' = IF cancel.some THEN cancelled \cup {cancel.val} ELSE cancelled
    /\ cancel' = None
    /\ open_tabs' = IF active_tab_idx < Len(open_tabs)
                   THEN [open_tabs EXCEPT ![active_tab_idx + 1] = set_idle(@)]
                   ELSE open_tabs
    /\ UNCHANGED << active_tab_idx, collections, environments, active_environment_idx,
                    os_env, tasks, channel, calls, resolver_vars >>

\* ------------------------------------------------------------------------
\* http/executor.rs
\* ------------------------------------------------------------------------

\* What do_execute can return: a response, or an error of variant Http.
Outcomes == {"Ok", "Http"}

\* The do_execute future of task t becomes ready with outcome o, the value it
\* returns when the task is next polled: the request was built and sent and
\* the whole body read, or one of these steps failed. `late` records that the
\* token had been cancelled before that. `origin`, set by send_request, records
\* the collection_id of the tab the request was sent from.
do_execute(t, o) ==
    /\ t \in DOMAIN tasks
    /\ ~tasks[t].done
    /\ tasks[t].net = "pending"
    /\ tasks' = [tasks EXCEPT ![t].net = o, ![t].late = (t \in cancelled)]
    /\ UNCHANGED << open_tabs, active_tab_idx, collections, environments,
                    active_environment_idx, os_env, cancel, cancelled, channel,
                    calls, resolver_vars >>

\* The branches of the select! that are ready when task t is polled.
ready_branches(t) ==
    (IF tasks[t].net # "pending" THEN {tasks[t].net} ELSE {})
        \cup (IF t \in cancelled THEN {"Cancelled"} ELSE {})

\* execute as it would be if the task went on after sending its result.
execute_again(t) ==
    /\ t \in DOMAIN tasks
    /\ tasks[t].sent < MaxSends
    /\ \E result \in ready_branches(t) :
          channel' = Append(channel, [task |-> t, result |-> result])
    /\ tasks' = [tasks EXCEPT ![t].sent = @ + 1]
    /\ UNCHANGED << open_tabs, active_tab_idx, collections, environments,
                    active_environment_idx, os_env, cancel, cancelled, calls,
                    resolver_vars >>

\* Task t is polled with a branch of its select! ready: the branch's result is
\* put on the channel and the task ends. select! is not biased, so either
\* ready branch may be taken.
execute(t) ==
    /\ t \in DOMAIN tasks
    /\ ~tasks[t].done
    /\ \E result \in ready_branches(t) :
          channel' = Append(channel, [task |-> t, result |-> result])
    /\ tasks' = [tasks EXCEPT ![t].done = TRUE, ![t].sent = @ + 1]
    /\ UNCHANGED << open_tabs, active_tab_idx, collections, environments,
                    active_environment_idx, os_env, cancel, cancelled, calls,
                    resolver_vars >>

\* ------------------------------------------------------------------------
\* app.rs: handle_response
\* ------------------------------------------------------------------------

set_response(tab, resp) ==
    [tab EXCEPT !.response = Some(resp), !.request_status = [kind |-> "Idle"]]

set_error(tab, msg) == [tab EXCEPT !.request_status = [kind |-> "Error", msg |-> msg]]

\* e.to_string(): the Display text of the error's variant.
to_string(e) ==
    CASE e = "Http" -> "HTTP error: {0}"
      [] e = "Cancelled" -> "Request cancelled"

\* The handler as it would be without its arm for Cancelled.
apply_result_cancel_shown(tab, ev) ==
    IF ev.result = "Ok" THEN set_response(tab, [task |-> ev.task])
    ELSE set_error(tab, to_string(ev.result))

\* The tab the handler's `if let Some(tab) = active_tab_mut()` writes.
apply_result(tab, ev) ==
    IF ev.result = "Ok" THEN set_response(tab, [task |-> ev.task])
    ELSE IF ev.result = "Cancelled" THEN set_idle(tab)
    ELSE set_error(tab, to_string(ev.result))

\* The event loop receives the oldest Response event and handles it.
handle_response ==
    /\ channel # <<>>
    /\ LET ev == Head(channel)
           tabs == IF active_tab_idx < Len(open_tabs)
                   THEN [open_tabs EXCEPT ![active_tab_idx + 1] = apply_result(@, ev)]
                   ELSE open_tabs
       IN  /\ channel' = Tail(channel)
           /\ cancel' = None
           /\ open_tabs' = tabs
           /\ collections' = IF ev.result = "Ok"
                             THEN sync_active_tab_to_collection(tabs, active_tab_idx, collections)
                             ELSE collections
    /\ UNCHANGED << active_tab_idx, environments, active_environment_idx, os_env,
                    cancelled, tasks, calls, resolver_vars >>

\* ------------------------------------------------------------------------
\* The application
\* ------------------------------------------------------------------------

ResolverIdle ==
    /\ arg_input = <<>>
    /\ layers = <<>>
    /\ secret_keys = {}
    /\ out = [op |-> "none"]

\* App::new on a workspace with one saved request and one environment.
AppInit ==
    /\ open_tabs = << DefaultTab >>
    /\ active_tab_idx = 0
    /\ collections = [id \in CollectionIds |-> Url_au]
    /\ environments = << EnvDev >>
    /\ active_environment_idx = Some(0)
    /\ os_env = (Str_a :> Val_os)
    /\ cancel = None
    /\ cancelled = {}
    /\ tasks = <<>>
    /\ channel = <<>>
    /\ calls = 0

Init == AppInit /\ ResolverIdle

Next ==
    \/ send_request
    \/ cancel_request
    \/ handle_response
    \/ \E t \in DOMAIN tasks, o \in Outcomes : do_execute(t, o)
    \/ \E t \in DOMAIN tasks : execute(t)
    \/ \E r \in RequestPool : handle_insert_key(r)

Spec == Init /\ [][Next]_vars

\* Space on column 0 of row `row` of the editor of environment idx: the
\* variable is enabled or disabled.
handle_env_editor_key(idx, row) ==
    /\ idx \in DOMAIN environments
    /\ row \in DOMAIN environments[idx].variables
    /\ environments' = [environments EXCEPT ![idx].variables[row].enabled = ~@]
    /\ UNCHANGED << open_tabs, active_tab_idx, collections, active_environment_idx,
                    os_env, cancel, cancelled, tasks, channel, calls, resolver_vars >>

\* Enter on environment i of the switcher: it becomes the active one.
handle_env_switcher_key(i) ==
    /\ i \in 0..(Len(environments) - 1)
    /\ active_environment_idx' = Some(i)
    /\ UNCHANGED << open_tabs, active_tab_idx, collections, environments, os_env,
                    cancel, cancelled, tasks, channel, calls, resolver_vars >>

\* The application with its environments edited while requests are in
\* flight.
MaxEditSends == 1

\* A second environment, where a = ww.
EnvOther == [variables |-> << EnvVariable(Str_a, Val_ww, "Text", TRUE) >>]

\* App::new on a workspace with one saved request and two environments, the
\* first of them active.
InitEdit ==
    /\ open_tabs = << DefaultTab >>
    /\ active_tab_idx = 0
    /\ collections = [id \in CollectionIds |-> Url_au]
    /\ environments = << EnvDev, EnvOther >>
    /\ active_environment_idx = Some(0)
    /\ os_env = (Str_a :> Val_os)
    /\ cancel = None
    /\ cancelled = {}
    /\ tasks = <<>>
    /\ channel = <<>>
    /\ calls = 0
    /\ ResolverIdle

NextEdit ==
    \/ (calls < MaxEditSends /\ send_request)
    \/ handle_response
    \/ \E t \in DOMAIN tasks, o \in Outcomes : do_execute(t, o)
    \/ \E t \in DOMAIN tasks : execute(t)
    \/ \E r \in RequestPool : handle_insert_key(r)
    \/ \E idx \in DOMAIN environments :
          \E row \in DOMAIN environments[idx].variables : handle_env_editor_key(idx, row)
    \/ \E i \in 0..(Len(environments) - 1) : handle_env_switcher_key(i)

SpecEdit == InitEdit /\ [][NextEdit]_vars

\* Alt+1 .. Alt+9 in normal mode: the tab at 0-based index idx becomes the
\* active one, if there is one.
handle_normal_key(idx) ==
    /\ idx < Len(open_tabs)
    /\ collections' = sync_active_tab_to_collection(open_tabs, active_tab_idx, collections)
    /\ active_tab_idx' = idx
    /\ UNCHANGED << open_tabs, environments, active_environment_idx, os_env,
                    cancel, cancelled, tasks, channel, calls, resolver_vars >>

\* storage/workspace.rs, load_workspace_full: the WorkspaceState built from
\* what is stored for a workspace, ws_file being its workspace.toml.
load_workspace_full(ws_file, cols, envs) ==
    [collections |-> cols,
     environments |-> envs,
     active_environment_idx |->
         IF ws_file.active_environment_idx.some
               /\ ws_file.active_environment_idx.val < Len(envs)
         THEN ws_file.active_environment_idx
         ELSE IF envs = <<>> THEN None ELSE Some(0),
     open_tabs |-> <<>>,
     active_tab_idx |-> 0]

\* Enter in the workspace switcher on a workspace other than the current one,
\* stored being what the disk holds for it.
handle_workspace_switcher_key(stored) ==
    /\ LET ws == load_workspace_full(stored.ws_file, stored.collections, stored.environments) IN
          /\ open_tabs' = IF ws.open_tabs = <<>> THEN << DefaultTab >> ELSE ws.open_tabs
          /\ active_tab_idx' = ws.active_tab_idx
          /\ collections' = ws.collections
          /\ environments' = ws.environments
          /\ active_environment_idx' = ws.active_environment_idx
    /\ UNCHANGED << os_env, cancel, cancelled, tasks, channel, calls, resolver_vars >>

\* The other workspace on disk: the same saved request and environment, and
\* a workspace.toml that names no active environment.
StoredWorkspace ==
    [ws_file |-> [active_environment_idx |-> None],
     collections |-> [id \in CollectionIds |-> Url_au],
     environments |-> << EnvDev >>]

\* The application with several tabs.
MaxTabSends == 1

\* The tab indices Alt+1 .. Alt+9 name.
TabKeys == 0..8

NextTabs ==
    \/ (calls < MaxTabSends /\ send_request)
    \/ cancel_request
    \/ handle_response
    \/ \E t \in DOMAIN tasks, o \in Outcomes : do_execute(t, o)
    \/ \E t \in DOMAIN tasks : execute(t)
    \/ \E r \in RequestPool : handle_insert_key(r)
    \/ next_open_tab
    \/ prev_open_tab
    \/ close_active_tab
    \/ \E id \in CollectionIds : handle_sidebar_enter(id)
    \/ \E idx \in TabKeys : handle_normal_key(idx)
    \/ handle_workspace_switcher_key(StoredWorkspace)

SpecTabs == Init /\ [][NextTabs]_vars

\* ------------------------------------------------------------------------
\* The resolver on its own: EnvResolver::new(layers, secret_keys), then one
\* call of resolve or resolve_for_send on an input.
\* ------------------------------------------------------------------------

\* Tokens an input is made of.
MaxTokens == 3

\* resolver_from_state stacks at most two layers: the environment and the OS.
MaxLayers == 2

Names == { Str_a, Str_s }

Values == { Val_v, Val_ww }

Tokens ==
    { <<"{", "{", "a", "}", "}">>,
      <<"{", "{", " ", "s", " ", "}", "}">>,
      <<"{", "{">>,
      <<"}", "}">>,
      <<"/">> }

Inputs == { Flatten(ts) : ts \in UNION { [1..n -> Tokens] : n \in 0..MaxTokens } }

AllLayers == UNION { [S -> Values] : S \in SUBSET Names }

AllLayerSeqs == UNION { [1..n -> AllLayers] : n \in 1..MaxLayers }

Str_host == <<"h", "o", "s", "t">>

Val_example_com == <<"e", "x", "a", "m", "p", "l", "e", ".", "c", "o", "m">>

\* "{{host}}/x"
In_host_x == <<"{", "{", "h", "o", "s", "t", "}", "}", "/", "x">>

\* "{{host}}/api"
In_host_api == <<"{", "{", "h", "o", "s", "t", "}", "}", "/", "a", "p", "i">>

\* "{{unknown}}/api"
In_unknown_api == <<"{", "{", "u", "n", "k", "n", "o", "w", "n", "}", "}", "/", "a", "p", "i">>

\* make_resolver of the unit tests: one layer, no secrets.
make_resolver(m) == [layers |-> << m >>, secret_keys |-> {}]

Str_b == <<"b">>

\* "{{a}}"
In_a == <<"{", "{", "a", "}", "}">>

\* "{{b}}"
In_b == <<"{", "{", "b", "}", "}">>

\* The resolvers and inputs of test_resolve_found and test_resolve_not_found,
\* and "{{a}}" under variables whose values are placeholders: a = {{b}} with
\* b = x, a = {{a}}, and a = {{b}} with b = {{a}}.
ResolverCases ==
    { [resolver |-> make_resolver(Str_host :> Val_example_com), input |-> In_host_x],
      [resolver |-> make_resolver(Str_host :> Val_example_com), input |-> In_host_api],
      [resolver |-> make_resolver(EmptyMap), input |-> In_unknown_api],
      [resolver |-> make_resolver(Str_a :> In_b @@ Str_b :> <<"x">>), input |-> In_a],
      [resolver |-> make_resolver(Str_a :> In_a), input |-> In_a],
      [resolver |-> make_resolver(Str_a :> In_b @@ Str_b :> In_a), input |-> In_a] }

InitResolve ==
    /\ AppInit
    /\ \/ /\ arg_input \in Inputs
          /\ layers \in AllLayerSeqs
          /\ secret_keys \in SUBSET Names
       \/ \E c \in ResolverCases :
             /\ arg_input = c.input
             /\ layers = c.resolver.layers
             /\ secret_keys = c.resolver.secret_keys
    /\ out = [op |-> "none"]

Resolve ==
    /\ out' = [op |-> "resolve", res |-> resolve(layers, secret_keys, arg_input)]
    /\ UNCHANGED << app_vars, arg_input, layers, secret_keys >>

ResolveForSend ==
    /\ out' = [op |-> "resolve_for_send", res |-> resolve_for_send(layers, arg_input)]
    /\ UNCHANGED << app_vars, arg_input, layers, secret_keys >>

NextResolve == Resolve \/ ResolveForSend

SpecResolve == InitResolve /\ [][NextResolve]_vars

\* ------------------------------------------------------------------------
\* Properties of the resolver (specification SpecResolve)
\* ------------------------------------------------------------------------

SameShape(ls2, ls) ==
    /\ Len(ls2) = Len(ls)
    /\ \A k \in 1..Len(ls) : DOMAIN ls2[k] = DOMAIN ls[k]

IsFound(ls, name) == \E k \in 1..Len(ls) : name \in DOMAIN ls[k]

\* Index of the lowest-indexed layer that contains name.
FirstLayerWith(ls, name) ==
    CHOOSE k \in 1..Len(ls) :
        /\ name \in DOMAIN ls[k]
        /\ \A j \in 1..(k - 1) : name \notin DOMAIN ls[j]

\* Resolvers that differ from ls only in the values bound to secret names.
SecretVariants(ls, secrets) ==
    { ls2 \in AllLayerSeqs :
        /\ SameShape(ls2, ls)
        /\ \A k \in 1..Len(ls) : \A n \in (DOMAIN ls[k]) \ secrets :
              ls2[k][n] = ls[k][n] }

\* C7: resolve never reveals secret values. Two resolvers that differ only in
\* the values bound to names of the secret set give the same value string and
\* the same spans, and every placeholder whose name is in the secret set and is
\* found in a layer is replaced by the 8-bullet mask with status Secret.
C7_ResolveHidesSecrets ==
    out.op = "resolve" =>
        /\ \A ls2 \in SecretVariants(layers, secret_keys) :
              resolve(ls2, secret_keys, arg_input) = out.res
        /\ \A i \in DOMAIN out.res.spans :
              LET sp == out.res.spans[i] IN
              (sp.variable_name \in secret_keys /\ IsFound(layers, sp.variable_name))
                  => /\ sp.status = [kind |-> "Secret"]
                     /\ Slice(out.res.value, sp.start, sp.end) = Mask

\* resolve has masked a secret whose value could have been another one.
C7_Witness ==
    /\ out.op = "resolve"
    /\ \E i \in DOMAIN out.res.spans : out.res.spans[i].status.kind = "Secret"
    /\ \E ls2 \in SecretVariants(layers, secret_keys) : ls2 # layers

\* The text that replaces placeholder sp when sending.
SendReplacement(ls, inp, sp) ==
    IF IsFound(ls, sp.name)
    THEN ls[FirstLayerWith(ls, sp.name)][sp.name]
    ELSE Slice(inp, sp.start, sp.end)

\* The input with each placeholder replaced by its send replacement.
ExpectedSend(ls, inp) ==
    LET ps == parse_vars(inp)
        n == Len(ps)
        before(k) == Slice(inp, IF k = 1 THEN 0 ELSE ps[k - 1].end, ps[k].start)
    IN  Flatten([k \in 1..n |-> before(k) \o SendReplacement(ls, inp, ps[k])])
            \o Slice(inp, IF n = 0 THEN 0 ELSE ps[n].end, Len(inp))

\* C8: resolve_for_send substitutes the real value of every found placeholder,
\* secret names included: its output is the input with each found placeholder
\* replaced by its layer value, and it contains no byte of the mask.
C8_SendUsesRealValues ==
    out.op = "resolve_for_send" =>
        /\ out.res = ExpectedSend(layers, arg_input)
        /\ \A i \in DOMAIN out.res : out.res[i] \notin { Bullet[1], Bullet[2], Bullet[3] }

\* resolve_for_send has substituted the value of a secret.
C8_Witness ==
    /\ out.op = "resolve_for_send"
    /\ \E i \in DOMAIN parse_vars(arg_input) :
          /\ parse_vars(arg_input)[i].name \in secret_keys
          /\ IsFound(layers, parse_vars(arg_input)[i].name)
    /\ out.res # arg_input

\* The single layer that binds each name as its lowest-indexed layer does.
Merged(ls) ==
    [n \in UNION { DOMAIN ls[k] : k \in 1..Len(ls) } |-> ls[FirstLayerWith(ls, n)][n]]

\* Resolvers that differ from ls only in bindings shadowed by an earlier layer.
ShadowVariants(ls) ==
    { ls2 \in AllLayerSeqs :
        /\ SameShape(ls2, ls)
        /\ \A k \in 1..Len(ls) : \A n \in DOMAIN ls[k] :
              (\E j \in 1..(k - 1) : n \in DOMAIN ls[j]) \/ ls2[k][n] = ls[k][n] }

\* C10: layer priority is first-match-wins. resolve and resolve_for_send give
\* what the single merged layer gives, whatever values later layers bind to a
\* name an earlier layer contains.
C10_FirstMatchWins ==
    /\ out.op = "resolve" =>
          /\ out.res = resolve(<< Merged(layers) >>, secret_keys, arg_input)
          /\ \A ls2 \in ShadowVariants(layers) : resolve(ls2, secret_keys, arg_input) = out.res
    /\ out.op = "resolve_for_send" =>
          /\ out.res = resolve_for_send(<< Merged(layers) >>, arg_input)
          /\ \A ls2 \in ShadowVariants(layers) : resolve_for_send(ls2, arg_input) = out.res

\* A placeholder's name is bound to different values by two layers.
C10_Witness ==
    /\ out.op # "none"
    /\ Len(layers) = 2
    /\ \E i \in DOMAIN parse_vars(arg_input) :
          LET n == parse_vars(arg_input)[i].name IN
          /\ n \in DOMAIN layers[1]
          /\ n \in DOMAIN layers[2]
          /\ layers[1][n] # layers[2][n]

\* ------------------------------------------------------------------------
\* Properties of sending, cancelling and response handling (specification Spec)
\* ------------------------------------------------------------------------

\* This step is handle_response taking the oldest event off the channel.
HandlesEvent == channel # <<>> /\ channel' = Tail(channel)

\* C1: when request B is dispatched before any Response event of request A has
\* been handled, no Response event of A's task is ever applied to the tab:
\* handling an event of a task that is not the last one dispatched leaves every
\* tab's response and request_status as they were.
C1_SupersededNeverApplied ==
    [][ (HandlesEvent /\ Head(channel).task < Len(tasks)) => open_tabs' = open_tabs ]_vars

\* C2: handling a Response event of an abandoned task, one whose token is not
\* the token in the cancellation slot, leaves the slot, the tab's request_status
\* and the tab's response unchanged.
C2_StaleDiscardedByIdentity ==
    [][ (HandlesEvent /\ cancel # Some(Head(channel).task))
            => (cancel' = cancel /\ open_tabs' = open_tabs) ]_vars

\* Tasks that have not delivered their outcome and whose token is not cancelled.
LiveTasks == { t \in DOMAIN tasks : ~tasks[t].done /\ t \notin cancelled }

\* C3: at most one task that has not yet delivered its outcome holds an
\* un-cancelled token.
C3_AtMostOneLiveTask == Cardinality(LiveTasks) <= 1

\* C4: a task whose token was cancelled before its network round trip
\* completed delivers Response(Err(Cancelled)), never Ok nor another result.
C4_CancelledBeforeCompletion ==
    [][ \A t \in DOMAIN tasks :
           (/\ ~tasks[t].done
            /\ tasks'[t].done
            /\ t \in cancelled
            /\ (tasks[t].net = "pending" \/ tasks[t].late))
               => channel'[Len(channel')].result = "Cancelled" ]_vars

\* Number of events of task t in the channel.
Queued(t) == Cardinality({ i \in DOMAIN channel : channel[i].task = t })

\* C5: every dispatched send puts exactly one Response event on the channel,
\* carrying Ok(ResponseState), Err(Cancelled) or another Err with a message: a
\* task that has ended has sent one event, a running one none, never two.
C5_OneResponsePerSend ==
    /\ \A t \in DOMAIN tasks :
          /\ tasks[t].sent = (IF tasks[t].done THEN 1 ELSE 0)
          /\ Queued(t) <= tasks[t].sent
    /\ \A i \in DOMAIN channel :
          /\ channel[i].task \in DOMAIN tasks
          /\ channel[i].result \in {"Ok", "Cancelled", "Http"}
    /\ Len(tasks) <= calls

\* Three sends have each delivered one event, one of each kind.
C5_Witness ==
    /\ Len(channel) = 3
    /\ { channel[i].result : i \in DOMAIN channel } = {"Ok", "Cancelled", "Http"}
    /\ { channel[i].task : i \in DOMAIN channel } = {1, 2, 3}

\* C6: a tab is never in Error or Loading while also holding a response.
C6_OneVisibleState ==
    \A i \in DOMAIN open_tabs :
        open_tabs[i].request_status.kind \in {"Error", "Loading"}
            => ~open_tabs[i].response.some

\* Bytes by which the spans before span k of s move when s is resolved for send.
RECURSIVE Shift(_, _, _)
Shift(ls, s, k) ==
    IF k <= 1 THEN 0
    ELSE LET sp == parse_vars(s)[k - 1] IN
         Shift(ls, s, k - 1) + Len(SendReplacement(ls, s, sp)) - (sp.end - sp.start)

\* Each placeholder of src that no layer defines stands in dst, with its
\* original bytes, at the place the earlier replacements move it to.
KeepsUnresolved(ls, src, dst) ==
    \A k \in DOMAIN parse_vars(src) :
        LET sp == parse_vars(src)[k]
            at == sp.start + Shift(ls, src, k)
        IN  ~IsFound(ls, sp.name)
                => /\ at + (sp.end - sp.start) <= Len(dst)
                   /\ Slice(dst, at, at + (sp.end - sp.start)) = Slice(src, sp.start, sp.end)

\* C9: a send is never blocked by unresolved placeholders. Every send_request
\* call on a tab with a non-empty URL dispatches a task and puts the tab in
\* Loading, and the dispatched descriptor has the literal `{{name}}` text of
\* each unresolved placeholder of the URL and of the enabled headers.
C9_SendFailsOpen ==
    [][ (calls' = calls + 1 /\ active_tab.some /\ active_tab.val.request.url # <<>>)
          => LET req == active_tab.val.request
                 ls == resolver_from_state(environments, active_environment_idx, os_env).layers
                 sent == tasks'[Len(tasks')].request
             IN  /\ Len(tasks') = Len(tasks) + 1
                 /\ open_tabs'[active_tab_idx + 1].request_status.kind = "Loading"
                 /\ KeepsUnresolved(ls, req.url, sent.url)
                 /\ Len(sent.headers) = Len(req.headers)
                 /\ \A i \in DOMAIN req.headers :
                       req.headers[i].enabled
                           => /\ KeepsUnresolved(ls, req.headers[i].key, sent.headers[i].key)
                              /\ KeepsUnresolved(ls, req.headers[i].value,
                                                 sent.headers[i].value) ]_vars

\* A request with unresolved placeholders is in flight, `{{u}}` still in its
\* URL and in a header key, and its tab is Loading.
C9_Witness ==
    /\ \E t \in DOMAIN tasks :
          /\ ~tasks[t].done
          /\ tasks[t].request.url = <<"v", "/", "{", "{", "u", "}", "}">>
          /\ tasks[t].request.headers[1].key = <<"k", "{", "{", " ", "u", " ", "}", "}">>
          /\ tasks[t].request.headers[1].value = Val_ww
    /\ active_tab.some
    /\ active_tab.val.request_status.kind = "Loading"

\* ------------------------------------------------------------------------
\* The resolver built from the application state: resolver_from_state on a
\* workspace's environments, then resolve (display) or resolve_for_send (send).
\* ------------------------------------------------------------------------

\* Variables of the environment under test.
MaxVars == 2

VarTypes == { "Text", "Secret" }

EnvVariables ==
    { EnvVariable(k, v, t, en) : k \in Names, v \in Values, t \in VarTypes, en \in BOOLEAN }

\* Lists of at most max variables.
VariableLists(max) == UNION { [1..n -> EnvVariables] : n \in 0..max }

Environment(vs) == [variables |-> vs]

\* Workspaces: no environment, one, or one next to EnvDev in either order.
EnvironmentLists(max) ==
    {<<>>} \cup UNION { { << Environment(vs) >>,
                          << EnvDev, Environment(vs) >>,
                          << Environment(vs), EnvDev >> } : vs \in VariableLists(max) }

\* The process environment binds some of the names, always to "os".
OsEnvs == UNION { [S -> {Val_os}] : S \in SUBSET Names }

\* "{{a}}" and "{{ s }}/{{a}}"
EnvInputs ==
    { <<"{", "{", "a", "}", "}">>,
      <<"{", "{", " ", "s", " ", "}", "}", "/", "{", "{", "a", "}", "}">> }

InitEnv ==
    /\ open_tabs = << DefaultTab >>
    /\ active_tab_idx = 0
    /\ collections = [id \in CollectionIds |-> Url_au]
    /\ environments \in EnvironmentLists(MaxVars)
    /\ active_environment_idx \in {None} \cup { Some(i) : i \in 0..(Len(environments) - 1) }
    /\ os_env \in OsEnvs
    /\ cancel = None
    /\ cancelled = {}
    /\ tasks = <<>>
    /\ channel = <<>>
    /\ calls = 0
    /\ arg_input \in EnvInputs
    /\ layers = <<>>
    /\ secret_keys = {}
    /\ out = [op |-> "none"]

\* Rendering: the resolver is built from the state and the text resolved for
\* display.
DisplayResolve ==
    /\ LET resolver == resolver_from_state(environments, active_environment_idx, os_env) IN
          /\ layers' = resolver.layers
          /\ secret_keys' = resolver.secret_keys
          /\ out' = [op |-> "resolve",
                     res |-> resolve(resolver.layers, resolver.secret_keys, arg_input)]
    /\ UNCHANGED << app_vars, arg_input >>

\* Sending: the resolver is built from the state and the text resolved with
\* real values.
SendResolve ==
    /\ LET resolver == resolver_from_state(environments, active_environment_idx, os_env) IN
          /\ layers' = resolver.layers
          /\ secret_keys' = resolver.secret_keys
          /\ out' = [op |-> "resolve_for_send",
                     res |-> resolve_for_send(resolver.layers, arg_input)]
    /\ UNCHANGED << app_vars, arg_input >>

NextEnv == DisplayResolve \/ SendResolve

SpecEnv == InitEnv /\ [][NextEnv]_vars

\* The variables of the active environment, or none without one.
ActiveVariables ==
    IF active_environment_idx.some /\ active_environment_idx.val < Len(environments)
    THEN environments[active_environment_idx.val + 1].variables
    ELSE <<>>

HasActiveEnvironment ==
    active_environment_idx.some /\ active_environment_idx.val < Len(environments)

EnabledAt(vs, key) == { i \in DOMAIN vs : vs[i].enabled /\ vs[i].key = key }

Last(S) == CHOOSE i \in S : \A j \in S : j <= i

\* C11: the resolver built from the state has, as layer 0, exactly the enabled
\* variables of the active environment (a key declared twice bound as its last
\* enabled declaration binds it) and, as last layer, the OS environment; its
\* secret set is exactly the keys of the enabled Secret-typed variables. A name
\* with no enabled variable is resolved by the OS layer or left Unresolved and
\* is never masked; a name with an enabled variable never gets the OS value.
C11_ResolverFromState ==
    out.op # "none" =>
        LET vs == ActiveVariables
            enabledKeys == { vs[i].key : i \in { j \in DOMAIN vs : vs[j].enabled } }
        IN
        /\ layers[Len(layers)] = os_env
        /\ Len(layers) = (IF HasActiveEnvironment THEN 2 ELSE 1)
        /\ HasActiveEnvironment =>
              /\ DOMAIN layers[1] = enabledKeys
              /\ \A k \in enabledKeys : layers[1][k] = vs[Last(EnabledAt(vs, k))].value
        /\ secret_keys =
              { vs[i].key : i \in { j \in DOMAIN vs : vs[j].enabled /\ vs[j].var_type = "Secret" } }
        /\ out.op = "resolve" =>
              \A i \in DOMAIN out.res.spans :
                 LET sp == out.res.spans[i]
                     n == sp.variable_name
                     text == Slice(out.res.value, sp.start, sp.end)
                 IN  IF n \in enabledKeys
                     THEN /\ sp.status.kind \in {"Resolved", "Secret"}
                          /\ sp.status.kind = "Resolved" =>
                                /\ sp.status.val = vs[Last(EnabledAt(vs, n))].value
                                /\ text = sp.status.val
                          /\ sp.status.kind = "Secret" => text = Mask
                     ELSE IF n \in DOMAIN os_env
                     THEN sp.status = [kind |-> "Resolved", val |-> os_env[n]] /\ text = os_env[n]
                     ELSE sp.status = [kind |-> "Unresolved"]

\* A resolver built from an environment in which a is enabled and shadows the
\* OS variable a, and s is declared only by a disabled Secret variable, so that
\* {{ s }} is resolved by the OS layer.
C11_Witness ==
    /\ out.op = "resolve"
    /\ HasActiveEnvironment
    /\ Str_a \in DOMAIN layers[1]
    /\ Str_a \in DOMAIN os_env
    /\ Str_s \notin DOMAIN layers[1]
    /\ \E i \in DOMAIN ActiveVariables :
          /\ ActiveVariables[i].key = Str_s
          /\ ~ActiveVariables[i].enabled
          /\ ActiveVariables[i].var_type = "Secret"
    /\ \E i \in DOMAIN out.res.spans :
          /\ out.res.spans[i].variable_name = Str_s
          /\ out.res.spans[i].status = [kind |-> "Resolved", val |-> Val_os]

\* ------------------------------------------------------------------------
\* Spans and text of resolve (specification SpecResolve)
\* ------------------------------------------------------------------------

\* The text resolve puts in place of placeholder k of inp, read off the status
\* of its output span sp.
ReplacementText(inp, k, sp) ==
    IF sp.status.kind = "Resolved" THEN sp.status.val
    ELSE IF sp.status.kind = "Secret" THEN Mask
    ELSE Slice(inp, parse_vars(inp)[k].start, parse_vars(inp)[k].end)

\* C12: the spans of resolve(input) are offsets into the output. There is one
\* output span per span of parse_vars(input), in the same order; the output
\* bytes of each span are its replacement text (the layer value if Resolved,
\* the mask if Secret, the original `{{...}}` text if Unresolved); the spans
\* ascend without overlapping; and the text before, between and after the
\* placeholders is the input's, unchanged.
C12_SpansAreOutputOffsets ==
    out.op = "resolve" =>
        LET ps == parse_vars(arg_input)
            sps == out.res.spans
            val == out.res.value
            n == Len(ps)
        IN
        /\ Len(sps) = n
        /\ \A k \in 1..n :
              /\ sps[k].variable_name = ps[k].name
              /\ 0 <= sps[k].start /\ sps[k].start <= sps[k].end /\ sps[k].end <= Len(val)
              /\ Slice(val, sps[k].start, sps[k].end) = ReplacementText(arg_input, k, sps[k])
              /\ sps[k].status.kind = "Resolved" =>
                    /\ IsFound(layers, ps[k].name)
                    /\ sps[k].status.val = layers[FirstLayerWith(layers, ps[k].name)][ps[k].name]
              /\ Slice(val, IF k = 1 THEN 0 ELSE sps[k - 1].end, sps[k].start)
                    = Slice(arg_input, IF k = 1 THEN 0 ELSE ps[k - 1].end, ps[k].start)
        /\ \A k \in 1..(n - 1) : sps[k].end <= sps[k + 1].start
        /\ Slice(val, IF n = 0 THEN 0 ELSE sps[n].end, Len(val))
              = Slice(arg_input, IF n = 0 THEN 0 ELSE ps[n].end, Len(arg_input))

\* resolve has rewritten two placeholders, and the second one's output
\* offsets differ from its input offsets.
C12_Witness ==
    /\ out.op = "resolve"
    /\ Len(out.res.spans) >= 2
    /\ out.res.spans[2].start # parse_vars(arg_input)[2].start
    /\ \E i \in DOMAIN out.res.spans : out.res.spans[i].status.kind = "Unresolved"
    /\ \E i \in DOMAIN out.res.spans : out.res.spans[i].status.kind = "Secret"

\* C13: a placeholder whose name is found in a layer and is not in the secret
\* set is replaced, braces included, by the real value, and its span has status
\* Resolved(value). With host = example.com, resolve("{{host}}/x") has value
\* "example.com/x" and exactly one span, Resolved.
C13_FoundIsReplacedByValue ==
    out.op = "resolve" =>
        LET ps == parse_vars(arg_input)
            sps == out.res.spans
        IN
        /\ Len(sps) = Len(ps)
        /\ \A k \in DOMAIN ps :
              (IsFound(layers, ps[k].name) /\ ps[k].name \notin secret_keys) =>
                  LET v == layers[FirstLayerWith(layers, ps[k].name)][ps[k].name] IN
                  /\ sps[k].status = [kind |-> "Resolved", val |-> v]
                  /\ Slice(out.res.value, sps[k].start, sps[k].end) = v
                  /\ sps[k].end - sps[k].start = Len(v)
                  /\ Slice(out.res.value, IF k = 1 THEN 0 ELSE sps[k - 1].end, sps[k].start)
                        = Slice(arg_input, IF k = 1 THEN 0 ELSE ps[k - 1].end, ps[k].start)
                  /\ Slice(out.res.value, sps[k].end,
                           IF k = Len(ps) THEN Len(out.res.value) ELSE sps[k + 1].start)
                        = Slice(arg_input, ps[k].end,
                                IF k = Len(ps) THEN Len(arg_input) ELSE ps[k + 1].start)
        /\ (arg_input = In_host_x /\ layers = << Str_host :> Val_example_com >>
                /\ secret_keys = {}) =>
              out.res = [value |-> Val_example_com \o <<"/", "x">>,
                         spans |-> << [start |-> 0, end |-> Len(Val_example_com),
                                       variable_name |-> Str_host,
                                       status |-> [kind |-> "Resolved",
                                                   val |-> Val_example_com]] >>]

\* resolve("{{host}}/x") with host = example.com has been computed.
C13_Witness ==
    /\ out.op = "resolve"
    /\ arg_input = In_host_x
    /\ IsFound(layers, Str_host)
    /\ out.res.value = Val_example_com \o <<"/", "x">>

\* C14: a placeholder whose name is in no layer stays in the output as its
\* original `{{name}}` text, and its span has status Unresolved and covers
\* exactly that text.
C14_UnknownStaysLiteral ==
    out.op = "resolve" =>
        LET ps == parse_vars(arg_input)
            sps == out.res.spans
        IN
        /\ Len(sps) = Len(ps)
        /\ \A k \in DOMAIN ps :
              ~IsFound(layers, ps[k].name) =>
                  /\ sps[k].status = [kind |-> "Unresolved"]
                  /\ sps[k].variable_name = ps[k].name
                  /\ sps[k].end - sps[k].start = ps[k].end - ps[k].start
                  /\ sps[k].end <= Len(out.res.value)
                  /\ Slice(out.res.value, sps[k].start, sps[k].end)
                        = Slice(arg_input, ps[k].start, ps[k].end)

\* resolve has left an unknown placeholder, written with spaces inside the
\* braces, behind a placeholder it replaced.
C14_Witness ==
    /\ out.op = "resolve"
    /\ Len(out.res.spans) >= 2
    /\ out.res.spans[1].status.kind # "Unresolved"
    /\ out.res.spans[2].status.kind = "Unresolved"
    /\ out.res.spans[2].variable_name = Str_s
    /\ out.res.spans[2].end - out.res.spans[2].start = 7

\* ------------------------------------------------------------------------
\* The parser on its own: one call of parse_vars, resolve or resolve_for_send
\* on an input made of braces, spaces and letters.
\* ------------------------------------------------------------------------

\* Tokens a parser input is made of.
MaxParseTokens == 5

ParseTokens ==
    { <<"{", "{">>, <<"}", "}">>, <<"{">>, <<"}">>, <<" ">>, <<"a">>, <<"b">> }

\* "{{a}}{{b}}"
In_a_b == <<"{", "{", "a", "}", "}", "{", "{", "b", "}", "}">>

\* "{{}}"
In_empty == <<"{", "{", "}", "}">>

\* "{{  }}"
In_blank == <<"{", "{", " ", " ", "}", "}">>

\* "{{  }}{{a}}"
In_blank_a == <<"{", "{", " ", " ", "}", "}", "{", "{", "a", "}", "}">>

\* "{{unterminated"
In_unterminated == <<"{", "{", "u", "n", "t", "e", "r", "m", "i", "n", "a", "t", "e", "d">>

\* "{{a}}{{unterminated"
In_a_unterminated == <<"{", "{", "a", "}", "}", "{", "{", "u", "n", "t", "e", "r", "m", "i", "n", "a", "t", "e", "d">>

\* "{{host"
In_host_open == <<"{", "{", "h", "o", "s", "t">>

\* "{{}}rest"
In_empty_rest == <<"{", "{", "}", "}", "r", "e", "s", "t">>

\* "{{scheme}}://{{host}}/path"
In_scheme_host == <<"{", "{", "s", "c", "h", "e", "m", "e", "}", "}", ":", "/", "/", "{", "{", "h", "o", "s", "t", "}", "}", "/", "p", "a", "t", "h">>

\* "https://example.com/api"
In_no_vars == <<"h", "t", "t", "p", "s", ":", "/", "/", "e", "x", "a", "m", "p", "l", "e", ".", "c", "o", "m", "/", "a", "p", "i">>

\* Inputs of the parser's unit tests and of the specification's examples.
ParseCases ==
    { In_a_b, In_empty, In_blank, In_blank_a, In_unterminated, In_a_unterminated,
      In_host_open, In_empty_rest, In_scheme_host, In_no_vars, In_host_api }

\* The unit-test inputs and every input of at most max tokens.
ParseInputs(max) ==
    ParseCases \cup
    { Flatten(ts) : ts \in UNION { [1..n -> ParseTokens] : n \in 0..max } }

InitParse ==
    /\ AppInit
    /\ arg_input \in ParseInputs(MaxParseTokens)
    /\ layers = make_resolver(Str_a :> Val_v).layers
    /\ secret_keys = make_resolver(Str_a :> Val_v).secret_keys
    /\ out = [op |-> "none"]

ParseVars ==
    /\ out' = [op |-> "parse_vars", res |-> parse_vars(arg_input)]
    /\ UNCHANGED << app_vars, arg_input, layers, secret_keys >>

NextParse == ParseVars \/ Resolve \/ ResolveForSend

SpecParse == InitParse /\ [][NextParse]_vars

\* ------------------------------------------------------------------------
\* Properties of the parser (specification SpecParse)
\* ------------------------------------------------------------------------

OpenAt(s, i) == i >= 0 /\ i + 1 < Len(s) /\ At(s, i) = "{" /\ At(s, i + 1) = "{"

CloseAt(s, j) == j >= 0 /\ j + 1 < Len(s) /\ At(s, j) = "}" /\ At(s, j + 1) = "}"

Blank(s) == \A i \in DOMAIN s : s[i] = " "

\* name is interior without its leading and trailing whitespace.
IsTrimOf(name, interior) ==
    /\ name # <<>>
    /\ name[1] # " "
    /\ name[Len(name)] # " "
    /\ \E a \in 0..(Len(interior) - Len(name)) :
          /\ Slice(interior, a, a + Len(name)) = name
          /\ Blank(Slice(interior, 0, a))
          /\ Blank(Slice(interior, a + Len(name), Len(interior)))

\* The spans ps moved d bytes to the right.
ShiftSpans(ps, d) ==
    [k \in DOMAIN ps |-> [ps[k] EXCEPT !.start = @ + d, !.end = @ + d]]

\* C15: the spans of parse_vars(input) are strictly ascending and do not
\* overlap; each has 0 <= start < end <= len(input) and end - start >= 4,
\* begins with `{{`, ends with the first `}}` at or after start + 2, and its
\* name is the trimmed interior, non-empty. Scanning resumes right after each
\* closed marker: `{{a}}{{b}}` yields the spans a and b, in that order.
C15_SpansWellFormed ==
    out.op = "parse_vars" =>
        LET ps == out.res IN
        /\ \A k \in DOMAIN ps :
              /\ 0 <= ps[k].start /\ ps[k].start < ps[k].end /\ ps[k].end <= Len(arg_input)
              /\ ps[k].end - ps[k].start >= 4
              /\ OpenAt(arg_input, ps[k].start)
              /\ CloseAt(arg_input, ps[k].end - 2)
              /\ \A j \in (ps[k].start + 2)..(ps[k].end - 3) : ~CloseAt(arg_input, j)
              /\ IsTrimOf(ps[k].name, Slice(arg_input, ps[k].start + 2, ps[k].end - 2))
        /\ \A k \in 1..(Len(ps) - 1) :
              /\ ps[k].start < ps[k + 1].start
              /\ ps[k].end <= ps[k + 1].start
        /\ arg_input = In_a_b =>
              ps = << [start |-> 0, end |-> 5, name |-> <<"a">>],
                      [start |-> 5, end |-> 10, name |-> <<"b">>] >>

\* parse_vars("{{a}}{{b}}") has returned two adjacent spans.
C15_Witness ==
    /\ out.op = "parse_vars"
    /\ arg_input = In_a_b
    /\ Len(out.res) = 2
    /\ out.res[1].end = out.res[2].start

\* C16: a closed marker whose interior is empty or whitespace-only gives no
\* span and does not stop the scan. No returned span has a blank interior;
\* parse_vars("{{}}") and parse_vars("{{  }}") are empty; and when the input
\* is brace-free text, then such a marker, then a rest, the result is the
\* spans of the rest, moved right by the length of what precedes it.
C16_EmptyNameSkipped ==
    out.op = "parse_vars" =>
        /\ \A k \in DOMAIN out.res :
              ~Blank(Slice(arg_input, out.res[k].start + 2, out.res[k].end - 2))
        /\ arg_input \in { In_empty, In_blank } => out.res = <<>>
        /\ \A p \in 0..Len(arg_input) : \A j \in (p + 2)..(Len(arg_input) - 2) :
              (/\ \A i \in 1..p : arg_input[i] \notin {"{", "}"}
               /\ OpenAt(arg_input, p)
               /\ CloseAt(arg_input, j)
               /\ Blank(Slice(arg_input, p + 2, j)))
                  => out.res = ShiftSpans(parse_vars(Slice(arg_input, j + 2, Len(arg_input))),
                                          j + 2)

\* parse_vars has returned the placeholder that follows "{{  }}".
C16_Witness ==
    /\ out.op = "parse_vars"
    /\ arg_input = In_blank_a
    /\ out.res = << [start |-> 6, end |-> 11, name |-> <<"a">>] >>

\* C17: a `{{` with no `}}` anywhere after it aborts the scan. No returned
\* span starts at or after such a `{{`, the spans found before it are kept
\* (the result is that of the text before it), and
\* parse_vars("{{unterminated") is empty.
C17_UnclosedAborts ==
    out.op = "parse_vars" =>
        /\ \A i \in 0..(Len(arg_input) - 2) :
              (OpenAt(arg_input, i) /\ \A j \in (i + 2)..(Len(arg_input) - 2) : ~CloseAt(arg_input, j))
                  => /\ \A k \in DOMAIN out.res : out.res[k].start < i /\ out.res[k].end <= i
                     /\ out.res = parse_vars(Slice(arg_input, 0, i))
        /\ arg_input = In_unterminated => out.res = <<>>

\* parse_vars has kept the span found before an unclosed marker.
C17_Witness ==
    /\ out.op = "parse_vars"
    /\ arg_input = In_a_unterminated
    /\ out.res = << [start |-> 0, end |-> 5, name |-> <<"a">>] >>

\* C18: for a string with no two consecutive `{` bytes, parse_vars returns
\* the empty list, resolve returns the input with no spans, and
\* resolve_for_send returns the input.
C18_NoOpenNoChange ==
    (\A i \in 0..(Len(arg_input) - 2) : ~OpenAt(arg_input, i)) =>
        /\ out.op = "parse_vars" => out.res = <<>>
        /\ out.op = "resolve" => out.res = [value |-> arg_input, spans |-> <<>>]
        /\ out.op = "resolve_for_send" => out.res = arg_input

\* resolve has returned "{a}}" unchanged: a single `{`, then a name the
\* resolver knows, then `}}`.
C18_Witness ==
    /\ out.op = "resolve"
    /\ arg_input = <<"{", "a", "}", "}">>
    /\ out.res.value = arg_input

\* ------------------------------------------------------------------------
\* http/builder.rs: normalize_url
\* ------------------------------------------------------------------------

\* str::starts_with
starts_with(s, prefix) ==
    Len(prefix) <= Len(s) /\ Slice(s, 0, Len(prefix)) = prefix

Str_http == <<"h", "t", "t", "p", ":", "/", "/">>

Str_https == <<"h", "t", "t", "p", "s", ":", "/", "/">>

Str_colon == <<":">>

Str_localhost == <<"l", "o", "c", "a", "l", "h", "o", "s", "t">>

Str_loopback == <<"1", "2", "7", ".", "0", ".", "0", ".", "1">>

Str_http_localhost == <<"h", "t", "t", "p", ":", "/", "/", "l", "o", "c", "a", "l", "h", "o", "s", "t">>

\* normalize_url as it would be if every URL without a scheme got https://.
normalize_url_https_only(url) ==
    LET u == trim(url) IN
    IF u = <<>> THEN u
    ELSE IF starts_with(u, Str_http) \/ starts_with(u, Str_https) THEN u
    ELSE Str_https \o u

\* normalize_url as it would be without its test for a scheme.
normalize_url_no_scheme_test(url) ==
    LET u == trim(url) IN
    IF u = <<>> THEN u
    ELSE IF starts_with(u, Str_colon) THEN Str_http_localhost \o u
    ELSE IF starts_with(u, Str_localhost) \/ starts_with(u, Str_loopback)
    THEN Str_http \o u
    ELSE Str_https \o u

normalize_url(url) ==
    LET u == trim(url) IN
    IF u = <<>> THEN u
    ELSE IF starts_with(u, Str_colon) THEN Str_http_localhost \o u
    ELSE IF starts_with(u, Str_http) \/ starts_with(u, Str_https) THEN u
    ELSE IF starts_with(u, Str_localhost) \/ starts_with(u, Str_loopback) THEN Str_http \o u
    ELSE Str_https \o u

\* Tokens a URL is made of.
MaxUrlTokens == 4

UrlTokens ==
    { <<"h", "t", "t", "p">>, <<"s">>, <<":", "/", "/">>, <<":">>, <<"/">>,
      Str_localhost, Str_loopback, <<" ">>, <<"x">> }

\* ":3000/x"
Url_3000_x == <<":", "3", "0", "0", "0", "/", "x">>

\* "example.com"
Url_example_com == <<"e", "x", "a", "m", "p", "l", "e", ".", "c", "o", "m">>

\* "http://x"
Url_http_x == <<"h", "t", "t", "p", ":", "/", "/", "x">>

\* The specification's three examples and every URL of at most max tokens.
UrlInputs(max) ==
    { Url_3000_x, Url_example_com, Url_http_x } \cup
    { Flatten(ts) : ts \in UNION { [1..n -> UrlTokens] : n \in 0..max } }

InitUrl ==
    /\ AppInit
    /\ arg_input \in UrlInputs(MaxUrlTokens)
    /\ layers = <<>>
    /\ secret_keys = {}
    /\ out = [op |-> "none"]

NormalizeUrl ==
    /\ out' = [op |-> "normalize_url", res |-> normalize_url(arg_input)]
    /\ UNCHANGED << app_vars, arg_input, layers, secret_keys >>

NextUrl == NormalizeUrl

SpecUrl == InitUrl /\ [][NextUrl]_vars

\* r is what the four rules make of u: an absolute http(s) URL unchanged,
\* http://localhost before a leading `:`, http:// before a leading localhost
\* or loopback literal, https:// before anything else.
FourRules(u, r) ==
    /\ (starts_with(u, Str_http) \/ starts_with(u, Str_https)) => r = u
    /\ starts_with(u, Str_colon) => r = Str_http_localhost \o u
    /\ (starts_with(u, Str_localhost) \/ starts_with(u, Str_loopback)) => r = Str_http \o u
    /\ ~(\/ starts_with(u, Str_http) \/ starts_with(u, Str_https)
         \/ starts_with(u, Str_colon)
         \/ starts_with(u, Str_localhost) \/ starts_with(u, Str_loopback))
          => r = Str_https \o u

\* The three conversions the specification lists.
UrlExamples ==
    /\ arg_input = Url_3000_x => out.res = Str_http_localhost \o Url_3000_x
    /\ arg_input = Url_example_com => out.res = Str_https \o Url_example_com
    /\ arg_input = Url_http_x => out.res = Url_http_x

\* C19, as stated: normalize_url maps every input by exactly one of the four
\* rules, applied to the input as given.
C19_FourRulesOnEveryInput ==
    out.op = "normalize_url" => (FourRules(arg_input, out.res) /\ UrlExamples)

\* C19, amended: normalize_url first strips the whitespace around the input;
\* an input that is empty after that gives the empty string, and any other
\* input is mapped by exactly one of the four rules applied to the stripped
\* text. The three conversions the specification lists hold.
C19_FourRulesAfterTrim ==
    out.op = "normalize_url" =>
        LET u == trim(arg_input) IN
        /\ u = <<>> => out.res = <<>>
        /\ u # <<>> => FourRules(u, out.res)
        /\ UrlExamples

\* normalize_url(" :x ") has given "http://localhost:x".
C19_Witness ==
    /\ out.op = "normalize_url"
    /\ arg_input = <<" ", ":", "x", " ">>
    /\ out.res = Str_http_localhost \o <<":", "x">>

\* ------------------------------------------------------------------------
\* http/builder.rs: build_request
\* ------------------------------------------------------------------------

\* The request descriptor build_request reads.
Descriptor(m, u, ps, hs, a, b) ==
    [method |-> m, url |-> u, params |-> ps, headers |-> hs, auth |-> a, body |-> b]

\* The printable ASCII characters, from 0x20 on (GRAVE stands for 0x60).
AsciiPrintable ==
    << " ", "!", "\"", "#", "$", "%", "&", "'", "(", ")", "*", "+",
       ",", "-", ".", "/", "0", "1", "2", "3", "4", "5", "6", "7",
       "8", "9", ":", ";", "<", "=", ">", "?", "@", "A", "B", "C",
       "D", "E", "F", "G", "H", "I", "J", "K", "L", "M", "N", "O",
       "P", "Q", "R", "S", "T", "U", "V", "W", "X", "Y", "Z", "[",
       "\\", "]", "^", "_", "GRAVE", "a", "b", "c", "d", "e", "f", "g",
       "h", "i", "j", "k", "l", "m", "n", "o", "p", "q", "r", "s",
       "t", "u", "v", "w", "x", "y", "z", "{", "|", "}", "~" >>

\* The byte a character is encoded as.
byte_of(c) == 31 + CHOOSE i \in DOMAIN AsciiPrintable : AsciiPrintable[i] = c

Base64Chars ==
    << "A", "B", "C", "D", "E", "F", "G", "H", "I", "J", "K", "L", "M",
       "N", "O", "P", "Q", "R", "S", "T", "U", "V", "W", "X", "Y", "Z",
       "a", "b", "c", "d", "e", "f", "g", "h", "i", "j", "k", "l", "m",
       "n", "o", "p", "q", "r", "s", "t", "u", "v", "w", "x", "y", "z",
       "0", "1", "2", "3", "4", "5", "6", "7", "8", "9", "+", "/" >>

\* Standard base64 with padding, as reqwest encodes basic credentials.
RECURSIVE base64(_)
base64(s) ==
    IF s = <<>> THEN <<>>
    ELSE LET n == Len(s)
             v == byte_of(s[1]) * 65536
                    + (IF n >= 2 THEN byte_of(s[2]) ELSE 0) * 256
                    + (IF n >= 3 THEN byte_of(s[3]) ELSE 0)
             c(d) == Base64Chars[((v \div d) % 64) + 1]
         IN  << c(262144), c(4096),
                IF n >= 2 THEN c(64) ELSE "=",
                IF n >= 3 THEN c(1) ELSE "=" >> \o base64(SubSeq(s, 4, n))

HexDigits == <<"0", "1", "2", "3", "4", "5", "6", "7", "8", "9", "A", "B", "C", "D", "E", "F">>

\* application/x-www-form-urlencoded, one character: letters, digits and
\* * - . _ stay, a space becomes +, anything else is percent-encoded.
urlencode_char(c) ==
    LET b == byte_of(c) IN
    IF \/ (b >= 48 /\ b <= 57) \/ (b >= 65 /\ b <= 90) \/ (b >= 97 /\ b <= 122)
       \/ c \in { "*", "-", ".", "_" }
    THEN << c >>
    ELSE IF c = " " THEN << "+" >>
    ELSE << "%", HexDigits[(b \div 16) + 1], HexDigits[(b % 16) + 1] >>

RECURSIVE urlencode(_)
urlencode(s) ==
    IF s = <<>> THEN <<>> ELSE urlencode_char(Head(s)) \o urlencode(Tail(s))

\* serde_urlencoded::to_string of a list of pairs: key=value joined by &.
RECURSIVE to_urlencoded(_)
to_urlencoded(pairs) ==
    IF pairs = <<>> THEN <<>>
    ELSE urlencode(pairs[1][1]) \o << "=" >> \o urlencode(pairs[1][2])
             \o (IF Len(pairs) > 1 THEN << "&" >> ELSE <<>>)
             \o to_urlencoded(Tail(pairs))

\* client.request(method, url): a builder with nothing attached yet.
request(method, url) ==
    [method |-> method, url |-> url, query |-> <<>>, headers |-> <<>>, body |-> None]

\* RequestBuilder::query with one pair.
query(builder, k, v) == [builder EXCEPT !.query = Append(@, << k, v >>)]

\* RequestBuilder::header: the header is appended to those the request has,
\* whether or not one of that name is there already.
header(builder, k, v) == [builder EXCEPT !.headers = Append(@, << k, v >>)]

Str_authorization == <<"A", "u", "t", "h", "o", "r", "i", "z", "a", "t", "i", "o", "n">>

Str_bearer == <<"B", "e", "a", "r", "e", "r", " ">>

Str_basic == <<"B", "a", "s", "i", "c", " ">>

Str_form_urlencoded == <<"a", "p", "p", "l", "i", "c", "a", "t", "i", "o", "n", "/", "x", "-", "w", "w", "w", "-", "f", "o", "r", "m", "-", "u", "r", "l", "e", "n", "c", "o", "d", "e", "d">>

\* RequestBuilder::bearer_auth: header(AUTHORIZATION, "Bearer {token}").
bearer_auth(builder, token) ==
    header(builder, Str_authorization, Str_bearer \o token)

\* RequestBuilder::basic_auth with Some(password):
\* header(AUTHORIZATION, "Basic " + base64("{username}:{password}")).
basic_auth(builder, username, password) ==
    header(builder, Str_authorization,
           Str_basic \o base64(username \o << ":" >> \o password))

body(builder, bytes) == [builder EXCEPT !.body = Some(bytes)]

Str_content_type == <<"C", "o", "n", "t", "e", "n", "t", "-", "T", "y", "p", "e">>

\* RequestBuilder::form: the pairs, URL-encoded, become the body, and the
\* request's Content-Type is set to application/x-www-form-urlencoded.
form(builder, pairs) ==
    LET others(h) == h[1] # Str_content_type IN
    [builder EXCEPT !.body = Some(to_urlencoded(pairs)),
                    !.headers = Append(SelectSeq(@, others),
                                       << Str_content_type, Str_form_urlencoded >>)]

Str_text_plain == <<"t", "e", "x", "t", "/", "p", "l", "a", "i", "n">>

Str_application_json == <<"a", "p", "p", "l", "i", "c", "a", "t", "i", "o", "n", "/", "j", "s", "o", "n">>

\* `for param in &state.params`, from entry k on.
RECURSIVE add_params(_, _, _)
add_params(builder, params, k) ==
    IF k > Len(params) THEN builder
    ELSE add_params(
             IF params[k].enabled /\ params[k].key # <<>>
             THEN query(builder, params[k].key, params[k].value)
             ELSE builder,
             params, k + 1)

\* The header loop as it would be if it did not test `enabled`.
RECURSIVE add_headers_all(_, _, _)
add_headers_all(builder, headers, k) ==
    IF k > Len(headers) THEN builder
    ELSE add_headers_all(
             IF headers[k].key # <<>>
             THEN header(builder, headers[k].key, headers[k].value)
             ELSE builder,
             headers, k + 1)

\* `for header in &state.headers`, from entry k on.
RECURSIVE add_headers(_, _, _)
add_headers(builder, headers, k) ==
    IF k > Len(headers) THEN builder
    ELSE add_headers(
             IF headers[k].enabled /\ headers[k].key # <<>>
             THEN header(builder, headers[k].key, headers[k].value)
             ELSE builder,
             headers, k + 1)

\* `match &state.auth`
add_auth(builder, auth) ==
    CASE auth.kind = "None" -> builder
      [] auth.kind = "Bearer" -> bearer_auth(builder, auth.token)
      [] auth.kind = "Basic" -> basic_auth(builder, auth.username, auth.password)
      [] auth.kind = "ApiKey" ->
            IF auth.in_header
            THEN header(builder, auth.key, auth.value)
            ELSE query(builder, auth.key, auth.value)

\* The form's pairs as they would be if `enabled` were not tested.
RECURSIVE form_pairs_all(_)
form_pairs_all(pairs) ==
    IF pairs = <<>> THEN <<>>
    ELSE << << Head(pairs).key, Head(pairs).value >> >> \o form_pairs_all(Tail(pairs))

\* pairs.iter().filter(|p| p.enabled).map(|p| (key, value)).collect()
RECURSIVE form_pairs(_)
form_pairs(pairs) ==
    IF pairs = <<>> THEN <<>>
    ELSE (IF Head(pairs).enabled THEN << << Head(pairs).key, Head(pairs).value >> >> ELSE <<>>)
             \o form_pairs(Tail(pairs))

\* The body step as it would be if a JSON body were parsed and sent only when
\* well-formed, and a binary body were typed application/octet-stream.
add_body_typed(builder, b) ==
    CASE b.kind = "None" -> builder
      [] b.kind = "Text" -> header(body(builder, b.text), Str_content_type, Str_text_plain)
      [] b.kind = "Json" ->
            IF b.text \in { <<"{", "}">>, <<"[", "]">> }
            THEN header(body(builder, b.text), Str_content_type, Str_application_json)
            ELSE builder
      [] b.kind = "Form" -> form(builder, form_pairs(b.pairs))
      [] b.kind = "Binary" ->
            header(body(builder, b.bytes), Str_content_type, <<"o", "c", "t", "e", "t">>)

\* `match &state.body`
add_body(builder, b) ==
    CASE b.kind = "None" -> builder
      [] b.kind = "Text" -> header(body(builder, b.text), Str_content_type, Str_text_plain)
      [] b.kind = "Json" -> header(body(builder, b.text), Str_content_type, Str_application_json)
      [] b.kind = "Form" -> form(builder, form_pairs(b.pairs))
      [] b.kind = "Binary" -> body(builder, b.bytes)

\* HttpMethod -> reqwest::Method
method_of(m) ==
    CASE m = "Get" -> "GET" [] m = "Post" -> "POST" [] m = "Put" -> "PUT"
      [] m = "Patch" -> "PATCH" [] m = "Delete" -> "DELETE" [] m = "Head" -> "HEAD"
      [] m = "Options" -> "OPTIONS"

build_request(state) ==
    LET b0 == request(method_of(state.method), normalize_url(state.url))
        b1 == add_params(b0, state.params, 1)
        b2 == add_headers(b1, state.headers, 1)
        b3 == add_auth(b2, state.auth)
        b4 == add_body(b3, state.body)
    IN  [ok |-> TRUE, builder |-> b4]

\* Query params, headers and form pairs of the descriptor under test,
\* together.
MaxPairs == 3

PairKeys == { <<>>, <<"k">> }

PairValues == { <<"1">>, <<"2">> }

\* The entries a params or headers list is made of; one of them is named
\* as the header the auth step adds.
Pairs ==
    { KeyValuePair(k, v, en) : k \in PairKeys, v \in PairValues, en \in BOOLEAN }
        \cup { KeyValuePair(Str_authorization, <<"x">>, TRUE) }

\* The entries a form is made of.
FormPairs ==
    { KeyValuePair(<<"k">>, <<"1">>, TRUE),
      KeyValuePair(<<"k">>, <<"2">>, FALSE),
      KeyValuePair(<<>>, <<"a", " ", "b", "=">>, TRUE) }

AuthConfigs ==
    { [kind |-> "None"],
      [kind |-> "Bearer", token |-> <<"t">>],
      [kind |-> "Basic", username |-> <<"u">>, password |-> <<"p">>],
      [kind |-> "ApiKey", key |-> <<"k">>, value |-> <<"9">>, in_header |-> TRUE],
      [kind |-> "ApiKey", key |-> <<"k">>, value |-> <<"9">>, in_header |-> FALSE] }

\* The bodies that are not forms; the JSON one is not well-formed and the
\* binary one is the byte 0xFF.
RequestBodies ==
    { [kind |-> "None"],
      [kind |-> "Text", text |-> <<"h", "i">>],
      [kind |-> "Json", text |-> <<"{">>],
      [kind |-> "Binary", bytes |-> <<"FF">>] }

\* A descriptor with at most MaxPairs query params, headers and form pairs
\* together.
InitBuild ==
    /\ AppInit
    /\ \E np \in 0..MaxPairs : \E nh \in 0..(MaxPairs - np) :
       \E ps \in [1..np -> Pairs], hs \in [1..nh -> Pairs], a \in AuthConfigs :
          \/ \E b \in RequestBodies :
                arg_input = Descriptor("Get", Url_3000_x, ps, hs, a, b)
          \/ \E nf \in 0..(MaxPairs - np - nh) : \E fs \in [1..nf -> FormPairs] :
                arg_input = Descriptor("Get", Url_3000_x, ps, hs, a,
                                       [kind |-> "Form", pairs |-> fs])
    /\ layers = <<>>
    /\ secret_keys = {}
    /\ out = [op |-> "none"]

BuildRequest ==
    /\ out' = [op |-> "build_request", res |-> build_request(arg_input)]
    /\ UNCHANGED << app_vars, arg_input, layers, secret_keys >>

NextBuild == BuildRequest

SpecBuild == InitBuild /\ [][NextBuild]_vars

\* The (key, value) pairs of the entries of kvs that are enabled and have a
\* non-empty key, in the order of kvs.
Attached(kvs) ==
    LET carried(e) == e.enabled /\ e.key # <<>>
        kept == SelectSeq(kvs, carried)
    IN  [n \in DOMAIN kept |-> << kept[n].key, kept[n].value >>]

\* Entries the auth and body steps add to the query string and the headers.
ExtraQuery(d) ==
    IF d.auth.kind = "ApiKey" /\ ~d.auth.in_header THEN 1 ELSE 0

ExtraHeaders(d) ==
    (IF d.auth.kind \in {"Bearer", "Basic"} THEN 1 ELSE 0)
        + (IF d.auth.kind = "ApiKey" /\ d.auth.in_header THEN 1 ELSE 0)
        + (IF d.body.kind \in {"Text", "Json", "Form"} THEN 1 ELSE 0)

\* C20: the request build_request makes carries exactly the query params and
\* exactly the headers of the descriptor that are enabled and have a
\* non-empty key, in declaration order, duplicates kept: they are the first
\* entries of its query string and of its headers, and what follows them was
\* added by the auth and body steps. Disabled and empty-key entries add
\* nothing.
C20_OnlyEnabledNonEmpty ==
    out.op = "build_request" =>
        LET d == arg_input
            b == out.res.builder
            ps == Attached(d.params)
            hs == Attached(d.headers)
        IN
        /\ out.res.ok
        /\ Len(b.query) = Len(ps) + ExtraQuery(d)
        /\ SubSeq(b.query, 1, Len(ps)) = ps
        /\ Len(b.headers) = Len(hs) + ExtraHeaders(d)
        /\ SubSeq(b.headers, 1, Len(hs)) = hs

\* A request built from the headers k: 2 (disabled) and k: 1 (enabled) and an
\* enabled param with an empty key: it has the one header k: 1 and no query
\* param.
C20_Witness ==
    /\ out.op = "build_request"
    /\ arg_input.auth.kind = "None"
    /\ arg_input.body.kind = "None"
    /\ arg_input.headers = << KeyValuePair(<<"k">>, <<"2">>, FALSE),
                              KeyValuePair(<<"k">>, <<"1">>, TRUE) >>
    /\ arg_input.params = << KeyValuePair(<<>>, <<"1">>, TRUE) >>
    /\ out.res.builder.headers = << << <<"k">>, <<"1">> >> >>
    /\ out.res.builder.query = <<>>

\* The headers of hs that are named name.
Named(hs, name) ==
    LET named(h) == h[1] = name IN SelectSeq(hs, named)

\* The characters a URL-encoded form is made of.
IsUrlEncoded(s) ==
    \A i \in DOMAIN s :
        \/ s[i] \in { "*", "-", ".", "_", "+", "%", "=", "&" }
        \/ \E b \in (48..57) \cup (65..90) \cup (97..122) : byte_of(s[i]) = b

C29_AuthStep ==
    out.op = "build_request" =>
        LET d == arg_input
            b == out.res.builder
            ps == Attached(d.params)
            hs == Attached(d.headers)
            typed == IF d.body.kind \in {"Text", "Json", "Form"} THEN 1 ELSE 0
            authz == Named(b.headers, Str_authorization)
        IN
        /\ d.auth.kind = "Bearer" =>
              authz = << << Str_authorization, Str_bearer \o d.auth.token >> >>
        /\ (d.auth.kind = "ApiKey" /\ d.auth.in_header) =>
              /\ b.query = ps
              /\ SubSeq(b.headers, 1, Len(b.headers) - typed)
                    = Append(hs, << d.auth.key, d.auth.value >>)
        /\ (d.auth.kind = "ApiKey" /\ ~d.auth.in_header) =>
              /\ b.query = Append(ps, << d.auth.key, d.auth.value >>)
              /\ SubSeq(b.headers, 1, Len(b.headers) - typed) = hs
        /\ d.auth.kind = "None" =>
              /\ b.query = ps
              /\ SubSeq(b.headers, 1, Len(b.headers) - typed) = hs

\* The fields of a URL-encoded body: what stands between its & separators.
RECURSIVE Fields(_)
Fields(s) ==
    IF s = <<>> THEN <<>>
    ELSE IF \E i \in DOMAIN s : s[i] = "&"
    THEN LET i == CHOOSE i \in DOMAIN s : s[i] = "&" /\ \A j \in 1..(i - 1) : s[j] # "&"
         IN  << SubSeq(s, 1, i - 1) >> \o Fields(SubSeq(s, i + 1, Len(s)))
    ELSE << s >>

\* C30: the body of a Form has one field for each enabled pair of the form
\* and no other: the n-th field is the n-th enabled pair, key = value, both
\* URL-encoded. Disabled pairs give no field.
C30_FormFromEnabledPairs ==
    (out.op = "build_request" /\ arg_input.body.kind = "Form") =>
        LET enabled(e) == e.enabled
            kept == SelectSeq(arg_input.body.pairs, enabled)
            fields == Fields(out.res.builder.body.val)
        IN
        /\ out.res.builder.body.some
        /\ Len(fields) = Len(kept)
        /\ \A n \in DOMAIN kept :
              fields[n] = urlencode(kept[n].key) \o << "=" >> \o urlencode(kept[n].value)

\* The form k = 2 (disabled), "" = "a b=" (enabled), k = 1 (enabled): the
\* body is "=a+b%3D&k=1".
C30_Witness ==
    /\ out.op = "build_request"
    /\ arg_input.body = [kind |-> "Form",
                         pairs |-> << KeyValuePair(<<"k">>, <<"2">>, FALSE),
                                      KeyValuePair(<<>>, <<"a", " ", "b", "=">>, TRUE),
                                      KeyValuePair(<<"k">>, <<"1">>, TRUE) >>]
    /\ out.res.builder.body = Some(<<"=", "a", "+", "b", "%", "3", "D", "&", "k", "=", "1">>)

\* ------------------------------------------------------------------------
\* http/executor.rs: do_execute, as a function of the request and of what the
\* network does
\* ------------------------------------------------------------------------

\* str::contains
contains(s, pat) ==
    \E i \in 0..(Len(s) - Len(pat)) : Slice(s, i, i + Len(pat)) = pat

\* Response bodies are made of the bytes "[", "]", "1", " " and 0xFF, which
\* is not valid anywhere in UTF-8.
InvalidByte == "FF"

\* U+FFFD, the replacement character, in UTF-8.
Replacement == <<"EF", "BF", "BD">>

\* std::str::from_utf8(...).is_ok()
is_utf8(bytes) == \A i \in DOMAIN bytes : bytes[i] # InvalidByte

\* String::from_utf8_lossy
RECURSIVE from_utf8_lossy(_)
from_utf8_lossy(bytes) ==
    IF bytes = <<>> THEN <<>>
    ELSE (IF Head(bytes) = InvalidByte THEN Replacement ELSE << Head(bytes) >>)
             \o from_utf8_lossy(Tail(bytes))

\* serde_json::from_slice::<Value> on these bytes: a JSON document is
\* whitespace, a value, whitespace; a value is a number (digits) or an array
\* that is empty or, there being no comma, holds one value.
\* JSON whitespace, skipped at both ends of s.
RECURSIVE skip_whitespace(_)
skip_whitespace(s) ==
    IF s # <<>> /\ Head(s) \in { " ", "\n", "\t", "\r" } THEN skip_whitespace(Tail(s))
    ELSE IF s # <<>> /\ s[Len(s)] \in { " ", "\n", "\t", "\r" }
    THEN skip_whitespace(SubSeq(s, 1, Len(s) - 1))
    ELSE s

RECURSIVE from_slice(_)
from_slice(bytes) ==
    LET t == skip_whitespace(bytes) IN
    IF t = <<>> THEN None
    ELSE IF \A i \in DOMAIN t : t[i] = "1"
    THEN Some([kind |-> "Number", digits |-> t])
    ELSE IF Len(t) >= 2 /\ t[1] = "[" /\ t[Len(t)] = "]"
    THEN LET inner == skip_whitespace(SubSeq(t, 2, Len(t) - 1)) IN
         IF inner = <<>> THEN Some([kind |-> "Array", items |-> <<>>])
         ELSE LET v == from_slice(inner) IN
              IF v.some THEN Some([kind |-> "Array", items |-> << v.val >>])
              ELSE None
    ELSE None

RECURSIVE indent(_)
indent(level) == IF level = 0 THEN <<>> ELSE <<" ", " ">> \o indent(level - 1)

\* serde_json's PrettyFormatter at nesting depth level.
RECURSIVE pretty(_, _)
pretty(json, level) ==
    IF json.kind = "Number" THEN json.digits
    ELSE IF json.items = <<>> THEN <<"[", "]">>
    ELSE <<"[", "\n">> \o indent(level + 1) \o pretty(json.items[1], level + 1)
             \o <<"\n">> \o indent(level) \o <<"]">>

\* serde_json::to_string_pretty
to_string_pretty(json) == pretty(json, 0)

Str_application_xml == <<"a", "p", "p", "l", "i", "c", "a", "t", "i", "o", "n", "/", "x", "m", "l">>

Str_application_xhtml == <<"a", "p", "p", "l", "i", "c", "a", "t", "i", "o", "n", "/", "x", "h", "t", "m", "l">>

Str_application_javascript == <<"a", "p", "p", "l", "i", "c", "a", "t", "i", "o", "n", "/", "j", "a", "v", "a", "s", "c", "r", "i", "p", "t">>

Str_text_slash == <<"t", "e", "x", "t", "/">>

Text(t) == [kind |-> "Text", text |-> t]

Binary(b) == [kind |-> "Binary", bytes |-> b]

Empty == [kind |-> "Empty"]

\* The classification as it would be if the empty-body test came first.
classify_empty_first(content_type, bytes) ==
    IF bytes = <<>> THEN Empty
    ELSE IF contains(content_type, Str_application_json)
    THEN LET json == from_slice(bytes) IN
         IF json.some THEN Text(to_string_pretty(json.val))
         ELSE Text(from_utf8_lossy(bytes))
    ELSE IF \/ contains(content_type, Str_text_slash)
            \/ contains(content_type, Str_application_xml)
            \/ contains(content_type, Str_application_xhtml)
            \/ contains(content_type, Str_application_javascript)
    THEN Text(from_utf8_lossy(bytes))
    ELSE IF is_utf8(bytes) THEN Text(bytes)
    ELSE Binary(bytes)

\* `let body = if content_type.contains("application/json") ...`
classify(content_type, bytes) ==
    IF contains(content_type, Str_application_json)
    THEN LET json == from_slice(bytes) IN
         IF json.some THEN Text(to_string_pretty(json.val))
         ELSE Text(from_utf8_lossy(bytes))
    ELSE IF \/ contains(content_type, Str_text_slash)
            \/ contains(content_type, Str_application_xml)
            \/ contains(content_type, Str_application_xhtml)
            \/ contains(content_type, Str_application_javascript)
    THEN Text(from_utf8_lossy(bytes))
    ELSE IF bytes = <<>> THEN Empty
    ELSE IF is_utf8(bytes) THEN Text(bytes)
    ELSE Binary(bytes)

\* The length of what a body shows.
shown_len(b) ==
    IF b.kind = "Text" THEN Len(b.text)
    ELSE IF b.kind = "Binary" THEN Len(b.bytes)
    ELSE 0

\* The response as it would be if size_bytes were taken from the classified
\* body.
ResponseState_shown_size(status, content_type, bytes, ttfb_ms, download_ms, total_ms) ==
    [status |-> status,
     body |-> classify(content_type, bytes),
     timing |-> [dns_lookup_ms |-> 0, tcp_connect_ms |-> 0, tls_handshake_ms |-> 0,
                 time_to_first_byte_ms |-> ttfb_ms,
                 download_ms |-> download_ms,
                 total_ms |-> total_ms],
     size_bytes |-> shown_len(classify(content_type, bytes))]

\* Ok(ResponseState { ... })
ResponseState(status, content_type, bytes, ttfb_ms, download_ms, total_ms) ==
    [status |-> status,
     body |-> classify(content_type, bytes),
     timing |-> [dns_lookup_ms |-> 0, tcp_connect_ms |-> 0, tls_handshake_ms |-> 0,
                 time_to_first_byte_ms |-> ttfb_ms,
                 download_ms |-> download_ms,
                 total_ms |-> total_ms],
     size_bytes |-> Len(bytes)]

Ok(v) == [ok |-> TRUE, val |-> v]

Err(e) == [ok |-> FALSE, err |-> e]

\* AppError::Http(reqwest::Error): the variant, and the kind of the reqwest
\* error it wraps.
Http(kind) == [variant |-> "Http", kind |-> kind]

\* What reqwest reports when the network fails: while connecting, in the
\* TLS handshake, on the client's timeout, or while the body is read.
NetworkFaults == { "connect", "tls", "timeout", "read" }

\* do_execute. net says what happens outside the program: whether
\* builder.build() fails, whether and where the network fails, the response,
\* and the three readings of start.elapsed(), in milliseconds.
do_execute_result(state, net) ==
    LET built == build_request(state) IN
    IF ~built.ok THEN Err(built.err)
    ELSE IF net.fault = "build" THEN Err(Http("builder"))
    ELSE IF net.fault \in { "connect", "tls", "timeout" } THEN Err(Http(net.fault))
    ELSE LET ttfb_ms == net.elapsed[1] IN
         IF net.fault = "read" THEN Err(Http("body"))
         ELSE LET download_ms == net.elapsed[2] - ttfb_ms
                  total_ms == net.elapsed[3]
              IN  Ok(ResponseState(net.status, net.content_type, net.bytes,
                                   ttfb_ms, download_ms, total_ms))

\* Body bytes of the response under test.
MaxBody == 3

\* Milliseconds the request may take.
MaxClock == 2

BodyBytes == { "[", "]", "1", " ", InvalidByte }

ContentTypes ==
    { <<>>, Str_application_json, <<"t", "e", "x", "t", "/", "h", "t", "m", "l">>, Str_application_xml,
      <<"a", "p", "p", "l", "i", "c", "a", "t", "i", "o", "n", "/", "x", "h", "t", "m", "l", "+", "x", "m", "l">>, Str_application_javascript, <<"a", "p", "p", "l", "i", "c", "a", "t", "i", "o", "n", "/", "o", "c", "t", "e", "t", "-", "s", "t", "r", "e", "a", "m">> }

\* Readings of a clock that never goes back.
Elapsed(max) ==
    { e \in [1..3 -> 0..max] : e[1] <= e[2] /\ e[2] <= e[3] }

\* A GET of ":3000/x" with nothing attached.
PlainRequest ==
    Descriptor("Get", Url_3000_x, <<>>, <<>>, [kind |-> "None"], [kind |-> "None"])

Net(fault, status, content_type, bytes, elapsed) ==
    [fault |-> fault, status |-> status, content_type |-> content_type,
     bytes |-> bytes, elapsed |-> elapsed]

InitExec ==
    /\ AppInit
    /\ \/ \E ct \in ContentTypes, n \in 0..MaxBody, e \in Elapsed(MaxClock) :
          \E bytes \in [1..n -> BodyBytes] :
             arg_input = [state |-> PlainRequest, net |-> Net("none", 200, ct, bytes, e)]
       \/ \E f \in {"build"} \cup NetworkFaults :
             arg_input = [state |-> PlainRequest,
                          net |-> Net(f, 200, <<>>, <<>>, [i \in 1..3 |-> 0])]
    /\ layers = <<>>
    /\ secret_keys = {}
    /\ out = [op |-> "none"]

DoExecute ==
    /\ out' = [op |-> "do_execute",
               res |-> do_execute_result(arg_input.state, arg_input.net)]
    /\ UNCHANGED << app_vars, arg_input, layers, secret_keys >>

NextExec == DoExecute

SpecExec == InitExec /\ [][NextExec]_vars

\* C21: when builder.build() fails, do_execute returns an error that is not
\* Cancelled and whose variant is different from the variant of the error it
\* returns for each network failure (connect, TLS, timeout, failed read).
C21_BuildErrorHasOwnVariant ==
    (out.op = "do_execute" /\ arg_input.net.fault = "build") =>
        /\ ~out.res.ok
        /\ out.res.err.variant # "Cancelled"
        /\ \A f \in NetworkFaults :
              LET other == do_execute_result(arg_input.state,
                                             [arg_input.net EXCEPT !.fault = f])
              IN  ~other.ok /\ other.err.variant # out.res.err.variant

\* The content types the second rule names.
Textual(content_type) ==
    \E pat \in { Str_text_slash, Str_application_xml, Str_application_xhtml,
                 Str_application_javascript } : contains(content_type, pat)

\* C25: a response that was read is always classified, by the first rule
\* that matches. A Content-Type containing application/json gives Text: the
\* pretty-printed document, which parses to the same value, when the body
\* parses as JSON, and the lossily decoded body when it does not. Otherwise a
\* Content-Type containing text/, application/xml, application/xhtml or
\* application/javascript gives Text, lossily decoded. Otherwise a body of no
\* bytes gives Empty. Otherwise the body gives Text when it is valid UTF-8
\* and Binary, holding the raw bytes, when it is not.
C25_ClassificationTotal ==
    (out.op = "do_execute" /\ arg_input.net.fault = "none") =>
        LET ct == arg_input.net.content_type
            bytes == arg_input.net.bytes
            json == from_slice(bytes)
        IN
        /\ out.res.ok
        /\ LET b == out.res.val.body IN
           IF contains(ct, Str_application_json)
           THEN /\ b.kind = "Text"
                /\ IF json.some
                   THEN /\ b.text = to_string_pretty(json.val)
                        /\ from_slice(b.text) = json
                   ELSE b.text = from_utf8_lossy(bytes)
           ELSE IF Textual(ct)
           THEN b = Text(from_utf8_lossy(bytes))
           ELSE IF Len(bytes) = 0
           THEN b = Empty
           ELSE IF is_utf8(bytes)
           THEN b = Text(bytes)
           ELSE b = Binary(bytes)

\* An application/json response with no body: the first rule applies, and it
\* is the empty Text and not Empty.
C25_Witness ==
    /\ out.op = "do_execute"
    /\ arg_input.net.fault = "none"
    /\ arg_input.net.content_type = Str_application_json
    /\ arg_input.net.bytes = <<>>
    /\ out.res.ok
    /\ out.res.val.body = Text(<<>>)

\* C26: size_bytes is the number of body bytes received, whatever the body
\* is classified as and whatever pretty-printing or lossy decoding made of
\* it, and it is 0 exactly when no body byte was received.
C26_SizeIsRawByteCount ==
    (out.op = "do_execute" /\ arg_input.net.fault = "none") =>
        /\ out.res.ok
        /\ out.res.val.size_bytes = Len(arg_input.net.bytes)
        /\ (out.res.val.size_bytes = 0) <=> (arg_input.net.bytes = <<>>)

\* An application/json response "[1]": 3 bytes, shown as 7 characters.
C26_Witness ==
    /\ out.op = "do_execute"
    /\ arg_input.net.fault = "none"
    /\ arg_input.net.content_type = Str_application_json
    /\ arg_input.net.bytes = <<"[", "1", "]">>
    /\ out.res.ok
    /\ out.res.val.size_bytes = 3
    /\ Len(out.res.val.body.text) = 7

\* C27: in the timing of a response, the time to the first byte and the
\* download time add up to the total time, the clock being free to advance
\* between any two of its readings.
C27_TimingAddsUp ==
    (out.op = "do_execute" /\ out.res.ok) =>
        LET t == out.res.val.timing IN
        /\ t.download_ms = t.total_ms - t.time_to_first_byte_ms
        /\ t.time_to_first_byte_ms + t.download_ms = t.total_ms

\* ------------------------------------------------------------------------
\* Properties of sending and of handling responses
\* ------------------------------------------------------------------------

\* C24: when the event loop handles a Cancelled result the active tab becomes
\* Idle and no tab enters Error; when it handles any other error the active
\* tab enters Error with the error's message; and handling a result never
\* sends again: a task is spawned in the steps that are send_request calls on
\* a tab with a non-empty URL and in no other step, so that the tasks spawned
\* are as many as those calls.
C24_ErrorsShownNeverResent ==
    [][ /\ (channel # <<>> /\ channel' = Tail(channel)) =>
              LET ev == Head(channel)
                  status == open_tabs'[active_tab_idx + 1].request_status
              IN
              /\ tasks' = tasks
              /\ ev.result = "Cancelled" =>
                    /\ status = [kind |-> "Idle"]
                    /\ \A i \in DOMAIN open_tabs :
                          open_tabs'[i].request_status.kind = "Error"
                             => open_tabs[i].request_status.kind = "Error"
              /\ ev.result = "Http" =>
                    status = [kind |-> "Error", msg |-> "HTTP error: {0}"]
        /\ Len(tasks') = Len(tasks)
              + (IF calls' = calls + 1 /\ active_tab.some
                       /\ active_tab.val.request.url # <<>>
                 THEN 1 ELSE 0)
      ]_vars

\* Three send_request calls, one of them on an empty URL, gave two tasks;
\* both have delivered and both results were handled, the last one an error
\* that the tab shows.
C24_Witness ==
    /\ calls = 3
    /\ Len(tasks) = 2
    /\ \A t \in DOMAIN tasks : tasks[t].done
    /\ channel = <<>>
    /\ open_tabs[active_tab_idx + 1].request_status
          = [kind |-> "Error", msg |-> "HTTP error: {0}"]

\* The resolver send_request builds in the current state.
SendResolver == resolver_from_state(environments, active_environment_idx, os_env)

\* The step spawns a task: the step of a send_request call that sends.
Spawns == Len(tasks') = Len(tasks) + 1

\* C22: the descriptor given to the task differs from the request of the tab
\* in its URL and in the key and value of its enabled headers only, each of
\* them being what resolve_for_send makes of it. Method, query params, auth,
\* body and disabled headers are those of the tab, placeholders included.
C22_OnlyUrlAndEnabledHeadersResolved ==
    [][ Spawns =>
          LET req == active_tab.val.request
              d == tasks'[Len(tasks')].request
              ls == SendResolver.layers
          IN
          /\ d.url = resolve_for_send(ls, req.url)
          /\ d.method = req.method
          /\ d.params = req.params
          /\ d.auth = req.auth
          /\ d.body = req.body
          /\ Len(d.headers) = Len(req.headers)
          /\ \A i \in DOMAIN req.headers :
                IF req.headers[i].enabled
                THEN /\ d.headers[i].enabled
                     /\ d.headers[i].key = resolve_for_send(ls, req.headers[i].key)
                     /\ d.headers[i].value = resolve_for_send(ls, req.headers[i].value)
                ELSE d.headers[i] = req.headers[i]
      ]_vars

\* A task whose URL is resolved to "v/{{u}}" and whose enabled header has the
\* secret's value, while its param, token and body still are placeholders
\* and its disabled header is as it was typed.
C22_Witness ==
    \E t \in DOMAIN tasks :
        LET d == tasks[t].request IN
        /\ d.url = <<"v", "/", "{", "{", "u", "}", "}">>
        /\ d.headers[1].value = Val_ww
        /\ d.headers[2] = Headers_us[2]
        /\ d.method = "Post"
        /\ d.params = Request_au.params
        /\ d.auth = Request_au.auth
        /\ d.body = Request_au.body

\* C23: a send_request call leaves the request of the tab as it was,
\* placeholders included, and no later step changes the descriptor a task
\* was given: not an edit of the tab's request, not an edit of the
\* environments, not the choice of another environment.
C23_DescriptorFixedAtSend ==
    [][ /\ Spawns => /\ Len(open_tabs') = Len(open_tabs)
                     /\ \A i \in DOMAIN open_tabs :
                           open_tabs'[i].request = open_tabs[i].request
        /\ \A t \in DOMAIN tasks :
              t \in DOMAIN tasks' /\ tasks'[t].request = tasks[t].request
      ]_vars

\* A task that has not delivered yet and was sent "v/{{u}}", while the tab's
\* request has been emptied since, a has been disabled and the other
\* environment, where a = ww, chosen: sent now, the tab's old request would
\* go to "os/{{u}}" or "ww/{{u}}".
C23_Witness ==
    /\ Len(tasks) = 1
    /\ ~tasks[1].done
    /\ tasks[1].request.url = <<"v", "/", "{", "{", "u", "}", "}">>
    /\ open_tabs[active_tab_idx + 1].request = DefaultRequest
    /\ ~environments[1].variables[1].enabled
    /\ active_environment_idx = Some(1)
    /\ resolve_for_send(SendResolver.layers, Url_au) = <<"w", "w", "/", "{", "{", "u", "}", "}">>

\* ------------------------------------------------------------------------
\* http/executor.rs: the cookies of a response
\* ------------------------------------------------------------------------

\* str::splitn(2, c): the text before the first c and, when there is a c,
\* the text after it.
splitn2(s, c) ==
    IF \E i \in DOMAIN s : s[i] = c
    THEN LET i == CHOOSE i \in DOMAIN s : s[i] = c /\ \A j \in 1..(i - 1) : s[j] # c
         IN  << SubSeq(s, 1, i - 1), SubSeq(s, i + 1, Len(s)) >>
    ELSE << s >>

\* str::split(c): never empty, the empty string gives one empty piece.
RECURSIVE split(_, _)
split(s, c) ==
    LET parts == splitn2(s, c) IN
    IF Len(parts) = 1 THEN parts ELSE << parts[1] >> \o split(parts[2], c)

\* parts.next().unwrap_or("")
next_or_empty(parts, n) == IF n <= Len(parts) THEN parts[n] ELSE <<>>

Str_domain_eq == <<"D", "o", "m", "a", "i", "n", "=">>

Str_path_eq == <<"P", "a", "t", "h", "=">>

Cookie(name, value, domain, path) ==
    [name |-> name, value |-> value, domain |-> domain, path |-> path]

\* `for attr in ... .split(';')`, from attribute k on.
RECURSIVE cookie_attrs(_, _, _)
cookie_attrs(cookie, attrs, k) ==
    IF k > Len(attrs) THEN cookie
    ELSE LET attr == trim(attrs[k]) IN
         cookie_attrs(
             IF starts_with(attr, Str_domain_eq)
             THEN [cookie EXCEPT !.domain = Slice(attr, Len(Str_domain_eq), Len(attr))]
             ELSE IF starts_with(attr, Str_path_eq)
             THEN [cookie EXCEPT !.path = Slice(attr, Len(Str_path_eq), Len(attr))]
             ELSE cookie,
             attrs, k + 1)

parse_set_cookie(h) ==
    LET parts == splitn2(h, ";")
        nv == splitn2(next_or_empty(parts, 1), "=")
        name == trim(next_or_empty(nv, 1))
        value == trim(next_or_empty(nv, 2))
    IN  cookie_attrs(Cookie(name, value, <<>>, <<"/">>),
                     split(next_or_empty(parts, 2), ";"), 1)

\* HeaderValue::to_str: the text of a header value, when all its bytes are
\* visible ASCII; a value may hold other bytes, such as 0xFF.
to_str(v) ==
    IF \A i \in DOMAIN v : v[i] # InvalidByte THEN Some(v) ELSE None

\* get_all("set-cookie").iter().filter_map(|v| v.to_str().ok())
\*     .map(parse_set_cookie).collect()
RECURSIVE cookies_of(_)
cookies_of(values) ==
    IF values = <<>> THEN <<>>
    ELSE (IF to_str(Head(values)).some
          THEN << parse_set_cookie(to_str(Head(values)).val) >>
          ELSE <<>>) \o cookies_of(Tail(values))

\* Set-Cookie headers of the response under test.
MaxCookies == 2

\* Pieces the values of these headers are made of, all together.
MaxCookieTokens == 4

CookieTokens == { <<"a">>, <<"=">>, <<";">>, <<" ">>, Str_domain_eq, Str_path_eq,
                  << InvalidByte >> }

\* `sid = a ; Path=/a; HttpOnly; Domain=a.a`
Cookie_sid == <<"s", "i", "d", " ", "=", " ", "a", " ", ";", " ", "P", "a", "t", "h", "=", "/", "a", ";", " ", "H", "t", "t", "p", "O", "n", "l", "y", ";", " ", "D", "o", "m", "a", "i", "n", "=", "a", ".", "a">>

\* The lists of n header values made of at most budget pieces together.
RECURSIVE HeaderLists(_, _)
HeaderLists(n, budget) ==
    IF n = 0 THEN { <<>> }
    ELSE UNION { { << Flatten(ts) >> \o rest :
                      ts \in [1..k -> CookieTokens],
                      rest \in HeaderLists(n - 1, budget - k) } : k \in 0..budget }

InitCookie ==
    /\ AppInit
    /\ \/ \E n \in 0..MaxCookies : arg_input \in HeaderLists(n, MaxCookieTokens)
       \/ arg_input = << Cookie_sid >>
    /\ layers = <<>>
    /\ secret_keys = {}
    /\ out = [op |-> "none"]

Cookies ==
    /\ out' = [op |-> "cookies", res |-> cookies_of(arg_input)]
    /\ UNCHANGED << app_vars, arg_input, layers, secret_keys >>

NextCookie == Cookies

SpecCookie == InitCookie /\ [][NextCookie]_vars

\* The position of the first c in s, and Len(s) + 1 when there is none.
FirstOf(s, c) ==
    IF \E i \in DOMAIN s : s[i] = c
    THEN CHOOSE i \in DOMAIN s : s[i] = c /\ \A j \in 1..(i - 1) : s[j] # c
    ELSE Len(s) + 1

\* The attributes of header h: the trimmed pieces, between ";", of what
\* follows its first segment.
RECURSIVE Pieces(_)
Pieces(s) ==
    IF FirstOf(s, ";") > Len(s) THEN << trim(s) >>
    ELSE << trim(SubSeq(s, 1, FirstOf(s, ";") - 1)) >>
             \o Pieces(SubSeq(s, FirstOf(s, ";") + 1, Len(s)))

Attributes(h) == Pieces(SubSeq(h, FirstOf(h, ";") + 1, Len(h)))

\* The values the attributes of h give for the attribute named by prefix.
AttributeValues(h, prefix) ==
    { SubSeq(Attributes(h)[k], Len(prefix) + 1, Len(Attributes(h)[k])) :
         k \in { k \in DOMAIN Attributes(h) : starts_with(Attributes(h)[k], prefix) } }

\* Cookie c is what the claim says of header h.
IsCookieOf(c, h) ==
    LET segment == SubSeq(h, 1, FirstOf(h, ";") - 1)
        eq == FirstOf(segment, "=")
    IN
    /\ c.name = trim(SubSeq(segment, 1, eq - 1))
    /\ c.value = trim(SubSeq(segment, eq + 1, Len(segment)))
    /\ IF AttributeValues(h, Str_domain_eq) = {} THEN c.domain = <<>>
       ELSE c.domain \in AttributeValues(h, Str_domain_eq)
    /\ IF AttributeValues(h, Str_path_eq) = {}
       THEN c.path = <<"/">>
       ELSE c.path \in AttributeValues(h, Str_path_eq)

\* C31: the cookie list of a response has one entry for each Set-Cookie
\* header, in the order of the headers, and entry i is the cookie of header
\* i alone: name and value are the trimmed text before and after the first
\* "=" of its first ";"-separated segment, domain is the value of a Domain=
\* attribute and empty without one, path is the value of a Path= attribute
\* and "/" without one. No header makes the parsing fail.
C31_OneCookiePerHeader ==
    out.op = "cookies" =>
        /\ Len(out.res) = Len(arg_input)
        /\ \A i \in DOMAIN arg_input : IsCookieOf(out.res[i], arg_input[i])

\* The display text v with the mask of each Secret span, from span k down to
\* the first, replaced by the value of the span's variable.
RECURSIVE Unmasked(_, _, _, _)
Unmasked(ls, v, spans, k) ==
    IF k = 0 THEN v
    ELSE Unmasked(ls,
             IF spans[k].status.kind = "Secret"
             THEN Slice(v, 0, spans[k].start)
                      \o lookup(ls, spans[k].variable_name).val
                      \o Slice(v, spans[k].end, Len(v))
             ELSE v,
             spans, k - 1)

\* C36: resolve and resolve_for_send scan and look up alike. When no
\* placeholder of the input names a member of the secret set, the text
\* resolve_for_send gives is the value resolve gives. With secrets, the two
\* differ in the Secret spans only: the value of resolve, with the real value
\* put in place of the mask at each Secret span, is the text of
\* resolve_for_send.
C36_SendIsDisplayUnmasked ==
    out.op \in { "resolve", "resolve_for_send" } =>
        LET shown == IF out.op = "resolve" THEN out.res
                     ELSE resolve(layers, secret_keys, arg_input)
            sent == IF out.op = "resolve_for_send" THEN out.res
                    ELSE resolve_for_send(layers, arg_input)
            names == { parse_vars(arg_input)[k].name : k \in DOMAIN parse_vars(arg_input) }
        IN
        /\ names \cap secret_keys = {} => sent = shown.value
        /\ sent = Unmasked(layers, shown.value, shown.spans, Len(shown.spans))

\* "{{ s }}{{a}}" with a found in the second layer only and the secret s in
\* the first: the display shows the mask and a's value, the request gets both
\* values.
C36_Witness ==
    /\ out.op = "resolve_for_send"
    /\ arg_input = <<"{", "{", " ", "s", " ", "}", "}", "{", "{", "a", "}", "}">>
    /\ secret_keys = { Str_s }
    /\ layers = << (Str_s :> Val_ww), (Str_a :> Val_v) >>
    /\ out.res = <<"w", "w", "v">>
    /\ resolve(layers, secret_keys, arg_input).value = Mask \o Val_v

\* C37: resolve_for_send substitutes in one pass. Each placeholder found is
\* replaced by its value as the value is, placeholders in it included, and
\* each placeholder not found by its own text, at the offsets one pass over
\* the input gives; with a = "{{b}}" and b = "x", "{{a}}" becomes "{{b}}".
\* The evaluation ends on every input, variables that name themselves or
\* each other included.
C37_SinglePass ==
    out.op = "resolve_for_send" =>
        LET once == resolve(layers, {}, arg_input) IN
        /\ Len(out.res) = Len(once.value)
        /\ \A k \in DOMAIN once.spans :
              LET sp == once.spans[k]
                  name == sp.variable_name
              IN  IF sp.status.kind = "Resolved"
                  THEN Slice(out.res, sp.start, sp.end) = lookup(layers, name).val
                  ELSE Slice(out.res, sp.start, sp.end)
                          = Slice(arg_input, parse_vars(arg_input)[k].start,
                                  parse_vars(arg_input)[k].end)
        /\ (arg_input = In_a /\ layers = << (Str_a :> In_b @@ Str_b :> <<"x">>) >>)
              => out.res = In_b

\* "{{a}}" where a = {{b}} and b = {{a}}: the result is "{{b}}".
C37_Witness ==
    /\ out.op = "resolve_for_send"
    /\ arg_input = In_a
    /\ layers = << (Str_a :> In_b @@ Str_b :> In_a) >>
    /\ out.res = In_b

\* C38: normalize_url is idempotent: applied to its own result, it gives that
\* result again.
C38_NormalizeIdempotent ==
    out.op = "normalize_url" => normalize_url(out.res) = out.res

\* " localhost/x" has become "http://localhost/x", which normalize_url leaves
\* as it is.
C38_Witness ==
    /\ out.op = "normalize_url"
    /\ arg_input = <<" ">> \o Str_localhost \o <<"/", "x">>
    /\ out.res = Str_http \o Str_localhost \o <<"/", "x">>
    /\ out.res # arg_input
    /\ normalize_url(out.res) = out.res

\* C35: a send_request call on a tab whose URL is empty does nothing: no task
\* is spawned, the cancellation slot and the set of cancelled tokens stay as
\* they are, and no tab's request_status or response changes.
C35_EmptyUrlSendIsNoOp ==
    [][ (calls' = calls + 1 /\ active_tab.some /\ active_tab.val.request.url = <<>>)
           => /\ tasks' = tasks
              /\ cancel' = cancel
              /\ cancelled' = cancelled
              /\ open_tabs' = open_tabs
              /\ channel' = channel
      ]_vars

\* One task is in flight, its token in the slot and not cancelled, the tab
\* Loading; the URL has been emptied since, and a second send_request call
\* has been made.
C35_Witness ==
    /\ calls = 2
    /\ Len(tasks) = 1
    /\ tasks[1].net = "pending"
    /\ cancel = Some(1)
    /\ cancelled = {}
    /\ open_tabs[active_tab_idx + 1].request.url = <<>>
    /\ open_tabs[active_tab_idx + 1].request_status = [kind |-> "Loading"]

\* C32: cancel_request leaves the active tab Idle and the cancellation slot
\* empty; and when no send has followed the cancelled one (the cancelled
\* task is the last one spawned), handling a Response event of that task
\* gives the tab no response and no error.
C32_CancelledOutcomeDiscarded ==
    [][ /\ (cancelled' # cancelled /\ tasks' = tasks) =>
              /\ cancel' = None
              /\ open_tabs'[active_tab_idx + 1].request_status = [kind |-> "Idle"]
        /\ (/\ channel # <<>>
            /\ channel' = Tail(channel)
            /\ Head(channel).task = Len(tasks)
            /\ Len(tasks) \in cancelled) =>
              /\ open_tabs'[active_tab_idx + 1].response
                    = open_tabs[active_tab_idx + 1].response
              /\ open_tabs'[active_tab_idx + 1].request_status.kind # "Error"
      ]_vars

\* ------------------------------------------------------------------------
\* Properties of tabs
\* ------------------------------------------------------------------------

\* C39: in every reachable state there is at least one open tab and
\* active_tab_idx is a valid index into open_tabs, whatever tabs were opened,
\* closed or jumped to and whatever workspace was switched to; so active_tab()
\* is never None when a Response event is handled.
C39_ActiveTabAlwaysExists ==
    /\ Len(open_tabs) >= 1
    /\ active_tab_idx < Len(open_tabs)
    /\ (channel # <<>> => active_tab.some)

\* The first tab was closed while the second, opened from the sidebar, was
\* the active one, and a Response event is waiting to be handled.
C39_Witness ==
    /\ Len(open_tabs) = 1
    /\ open_tabs[1].collection_id.some
    /\ active_tab_idx = 0
    /\ channel # <<>>

\* C33: on the handling of a Response event, no tab other than the one the
\* send was issued from has its response or request_status modified. A tab
\* whose collection_id differs from the one recorded at the send is another
\* tab than the originating one.
C33_OutcomeGoesToOriginTab ==
    [][(channel # <<>> /\ channel' = Tail(channel) /\ Len(open_tabs') = Len(open_tabs))
          => \A i \in DOMAIN open_tabs :
                open_tabs[i].collection_id # tasks[Head(channel).task].origin
                   => /\ open_tabs'[i].response = open_tabs[i].response
                      /\ open_tabs'[i].request_status = open_tabs[i].request_status]_vars

\* The application with several tabs, under the scheduling the runtime gives:
\* every spawned task's request eventually completes, every task is
\* eventually polled to the end, and the event loop eventually handles every
\* event in the channel. Nothing is assumed of the user's keys.
SpecTabsFair ==
    /\ SpecTabs
    /\ WF_vars(handle_response)
    /\ \A t \in 1..MaxTabSends :
          /\ WF_vars(\E o \in Outcomes : do_execute(t, o))
          /\ WF_vars(execute(t))

\* The collection_id values a tab can have.
TabIds == {None} \cup { Some(id) : id \in CollectionIds }

\* Some open tab with collection_id = id is Loading.
LoadingTab(id) ==
    \E i \in DOMAIN open_tabs :
        /\ open_tabs[i].collection_id = id
        /\ open_tabs[i].request_status.kind = "Loading"

\* C34: every tab that enters Loading eventually leaves Loading (or is
\* closed), given that every task eventually delivers its result and every
\* event is eventually handled, under any sends, cancels and tab switches.
C34_LoadingEventuallyEnds ==
    \A id \in TabIds : LoadingTab(id) ~> ~LoadingTab(id)

\* ------------------------------------------------------------------------
\* app.rs: the environment switcher
\* ------------------------------------------------------------------------

\* Environment::default() with id as its fresh uuid.
NewEnvironment(id) == [id |-> id, variables |-> <<>>]

\* An id no environment of envs has: the least one.
RECURSIVE fresh_id(_, _)
fresh_id(envs, id) ==
    IF \E k \in DOMAIN envs : envs[k].id = id THEN fresh_id(envs, id + 1) ELSE id

\* Alt+d as it would be without the arm that decrements an index after the
\* deleted one.
handle_env_switcher_key_delete_no_shift(i) ==
    /\ i \in 0..(Len(environments) - 1)
    /\ environments' = remove_at(environments, i)
    /\ active_environment_idx' =
          IF active_environment_idx.some /\ active_environment_idx.val = i
          THEN None
          ELSE active_environment_idx
    /\ UNCHANGED << open_tabs, active_tab_idx, collections, os_env,
                    cancel, cancelled, tasks, channel, calls, resolver_vars >>

\* Alt+d on environment i of the switcher: it is deleted.
handle_env_switcher_key_delete(i) ==
    /\ i \in 0..(Len(environments) - 1)
    /\ environments' = remove_at(environments, i)
    /\ active_environment_idx' =
          IF active_environment_idx.some /\ active_environment_idx.val = i
          THEN None
          ELSE IF active_environment_idx.some /\ active_environment_idx.val > i
          THEN Some(active_environment_idx.val - 1)
          ELSE active_environment_idx
    /\ UNCHANGED << open_tabs, active_tab_idx, collections, os_env,
                    cancel, cancelled, tasks, channel, calls, resolver_vars >>

\* Alt+e with no environment at all: one is created for the editor, and is
\* not made the active one.
handle_env_switcher_key_edit ==
    /\ environments = <<>>
    /\ environments' = << NewEnvironment(fresh_id(environments, 1)) >>
    /\ UNCHANGED << open_tabs, active_tab_idx, collections, active_environment_idx,
                    os_env, cancel, cancelled, tasks, channel, calls, resolver_vars >>

\* Enter while naming a new environment: it is appended and made the active
\* one.
handle_env_switcher_naming_key ==
    /\ environments' = Append(environments, NewEnvironment(fresh_id(environments, 1)))
    /\ active_environment_idx' = Some(Len(environments))
    /\ UNCHANGED << open_tabs, active_tab_idx, collections, os_env,
                    cancel, cancelled, tasks, channel, calls, resolver_vars >>

\* The application with its list of environments edited.
MaxEnvs == 4

\* What the disk holds for a workspace: at most max environments and a
\* workspace.toml whose index may be absent or out of range.
StoredWorkspaces(max) ==
    { [ws_file |-> [active_environment_idx |-> idx],
       collections |-> [id \in CollectionIds |-> Url_au],
       environments |-> [k \in 1..n |-> NewEnvironment(k)]] :
        n \in 0..max, idx \in {None} \cup { Some(i) : i \in 0..max } }

\* App::new on a stored workspace.
InitEnvList ==
    /\ \E stored \in StoredWorkspaces(MaxEnvs) :
          LET ws == load_workspace_full(stored.ws_file, stored.collections,
                                        stored.environments) IN
          /\ open_tabs = << DefaultTab >>
          /\ active_tab_idx = ws.active_tab_idx
          /\ collections = ws.collections
          /\ environments = ws.environments
          /\ active_environment_idx =
                IF ws.environments = <<>> THEN None
                ELSE IF ws.active_environment_idx.some THEN ws.active_environment_idx
                ELSE Some(0)
    /\ os_env = (Str_a :> Val_os)
    /\ cancel = None
    /\ cancelled = {}
    /\ tasks = <<>>
    /\ channel = <<>>
    /\ calls = 0
    /\ ResolverIdle

NextEnvList ==
    \/ \E i \in 0..(Len(environments) - 1) : handle_env_switcher_key(i)
    \/ \E i \in 0..(Len(environments) - 1) : handle_env_switcher_key_delete(i)
    \/ handle_env_switcher_key_edit
    \/ (Len(environments) < MaxEnvs /\ handle_env_switcher_naming_key)
    \/ \E stored \in StoredWorkspaces(MaxEnvs) : handle_workspace_switcher_key(stored)

SpecEnvList == InitEnvList /\ [][NextEnvList]_vars

\* The id of the environment idx designates in envs, if any.
designated(envs, idx) ==
    IF idx.some /\ idx.val < Len(envs) THEN Some(envs[idx.val + 1].id) ELSE None

\* C40: active_environment_idx is None or a valid index into environments,
\* and a deletion keeps it on the same environment: deleting the active
\* environment makes it None, deleting one before the active one decrements
\* it, deleting one after it leaves it unchanged.
C40_ActiveEnvironmentKept ==
    [][/\ active_environment_idx.some => active_environment_idx.val < Len(environments)
       /\ active_environment_idx'.some => active_environment_idx'.val < Len(environments')
       /\ \A i \in 0..(MaxEnvs - 1) :
             handle_env_switcher_key_delete(i) =>
                LET ai == active_environment_idx IN
                /\ ~ai.some => active_environment_idx' = None
                /\ (ai.some /\ ai.val = i) => active_environment_idx' = None
                /\ (ai.some /\ ai.val > i) =>
                      /\ active_environment_idx' = Some(ai.val - 1)
                      /\ designated(environments', active_environment_idx')
                            = designated(environments, ai)
                /\ (ai.some /\ ai.val < i) =>
                      /\ active_environment_idx' = ai
                      /\ designated(environments', active_environment_idx')
                            = designated(environments, ai)]_vars

\* The first of three environments was deleted while the third was the
\* active one: it is now the second, and still the active one.
C40_Witness ==
    /\ Len(environments) = 2
    /\ environments[1].id = 2
    /\ environments[2].id = 3
    /\ active_environment_idx = Some(1)
====
